---- MODULE Spec2Model ----
(***************************************************************************)
(* Model of plainbox.impl.ctrl.CheckBoxSessionStateController: dependency  *)
(* sets, "before" linking, readiness inhibitors, result observation,       *)
(* resource parsing and template instantiation, over a small session.      *)
(***************************************************************************)
EXTENDS Integers, Sequences, FiniteSets, TLC

\* ------------------------------------------------------------------------
\* Bounds
\* ------------------------------------------------------------------------
\* Number of observe_result calls explored in one behaviour.
MaxObserve == 2

\* Number of jobs the scheduler starts in one behaviour.
MaxRun == 6

\* Number of results observed between calls of the read-only operations.
MaxMutate == 1

\* Largest number of jobs per outcome in a session summary.
MaxCount == 2

\* ------------------------------------------------------------------------
\* Program constants
\* ------------------------------------------------------------------------
OUTCOME_NONE == "none"
OUTCOME_PASS == "pass"
OUTCOME_FAIL == "fail"
OUTCOME_CRASH == "crash"
OUTCOME_SKIP == "skip"
OUTCOME_NOT_SUPPORTED == "not-supported"
Outcomes ==
    {OUTCOME_NONE, OUTCOME_PASS, OUTCOME_FAIL, OUTCOME_CRASH, OUTCOME_SKIP,
     OUTCOME_NOT_SUPPORTED}

DEPENDS == "depends"
AFTER == "after"
RESOURCE == "resource"
BEFORE == "before"

PENDING_DEP == "PENDING_DEP"
FAILED_DEP == "FAILED_DEP"
PENDING_RESOURCE == "PENDING_RESOURCE"
FAILED_RESOURCE == "FAILED_RESOURCE"
NOT_FAILED_DEP == "NOT_FAILED_DEP"
UNDESIRED == "UNDESIRED"

AUTO_JOB_ID == "com.canonical.certification::suspend/suspend_advanced_auto"
MANUAL_JOB_ID == "com.canonical.certification::suspend/suspend_advanced"
AUTO_FLAG == "also-after-suspend"
MANUAL_FLAG == "also-after-suspend-manual"

FLAG_FEATURE_STRICT_TEMPLATE_EXPANSION == "strict-template-expansion"

\* Python None for an absent related job / expression.
None == "None"

\* ------------------------------------------------------------------------
\* The job catalog of the session
\* ------------------------------------------------------------------------
\* Ids with a job state in the session (the active job map).
JobIds == {"R", "A", "B", "J", AUTO_JOB_ID, MANUAL_JOB_ID}

\* Ids known to the global catalog: the active ones and "X", which is not
\* part of the current test plan.  "ghost" is in neither.
GlobalJobIds == JobIds \cup {"X"}

\* Python's order on the ids used here (sorted()).
SortedIds ==
    <<"A", "B", "D", "J", "K", "L", "M", "R", "R2", "X", MANUAL_JOB_ID,
      AUTO_JOB_ID, "ghost">>

\* Insertion order of job_state_map (dict iteration order).
JobStateOrder == <<"R", "A", "B", "J", AUTO_JOB_ID, MANUAL_JOB_ID>>

\* One requirement expression: its text, the resource ids it mentions in
\* order, and the (resource id, key, value) comparisons it makes.
ExprRx ==
    [text |-> "R.attr == 'x'",
     resource_id_list |-> <<"R">>,
     terms |-> {<<"R", "attr", "x">>}]

\* A requires text that is not an expression: it names R and stops after
\* the operator.
ExprBad ==
    [text |-> "R.attr ==", resource_id_list |-> <<"R">>, terms |-> {}]

\* An expression over two resources.
ExprRR2 ==
    [text |-> "R.attr == 'x' and R2.attr == 'x'",
     resource_id_list |-> <<"R", "R2">>,
     terms |-> {<<"R", "attr", "x">>, <<"R2", "attr", "x">>}]

\* Ids of a second, smaller session used to exercise get_inhibitor_list
\* alone: two resource jobs, a plain job D and a job K that depends on D
\* and requires both resources.
InhibitorJobIds == {"R", "R2", "D", "K"}

\* Ids of a third session whose jobs declare hard and after dependencies
\* only: D and B first, L after them (L is to run before the automatic
\* suspend, B before the manual one), M after the automatic suspend.
ProgressJobIds == {"D", "B", "L", "M", AUTO_JOB_ID, MANUAL_JOB_ID}

BlankJob(id) ==
    [id |-> id, plugin |-> "shell", depends |-> {}, after |-> {},
     salvage |-> {}, before |-> {}, requires |-> <<>>, flags |-> <<>>,
     siblings |-> <<>>]

\* The declared (immutable) fields of every job definition.  requires is
\* the resource program (a sequence of expressions, empty when the job has
\* no requires field); flags is the flags field split into words; siblings
\* is the decoded siblings JSON, one record per sibling.
JobDefOf(id) ==
    CASE id = "R" -> [BlankJob(id) EXCEPT !.plugin = "resource"]
      [] id = "A" -> [BlankJob(id) EXCEPT !.depends = {"R"},
                                          !.before = {"B", "X", "ghost"},
                                          !.flags = <<AUTO_FLAG>>]
      [] id = "B" -> [BlankJob(id) EXCEPT !.flags = <<MANUAL_FLAG>>]
      [] id = "J" -> [BlankJob(id) EXCEPT
                        !.depends = {"A"}, !.after = {"B"},
                        !.salvage = {"R"}, !.requires = <<ExprRx>>,
                        !.siblings = <<[id |-> "J-after-suspend",
                                        depends |-> <<MANUAL_JOB_ID>>]>>]
      [] id = "R2" -> [BlankJob(id) EXCEPT !.plugin = "resource"]
      [] id = "K" -> [BlankJob(id) EXCEPT !.depends = {"D"},
                                          !.requires = <<ExprRR2>>]
      [] id = "L" -> [BlankJob(id) EXCEPT !.depends = {"D"},
                                          !.after = {"B"},
                                          !.flags = <<AUTO_FLAG>>]
      [] id = "M" -> [BlankJob(id) EXCEPT !.depends = {AUTO_JOB_ID},
                                          !.after = {"L"}]
      [] OTHER -> BlankJob(id)

JobDefs ==
    [id \in JobIds \cup InhibitorJobIds \cup ProgressJobIds |-> JobDefOf(id)]

\* The same definitions from a provider whose suspend jobs name
\* themselves: the automatic one carries the also-after-suspend flag, the
\* manual one declares a sibling that depends on the manual suspend job.
SelfLinkedJobDefs ==
    [id \in DOMAIN JobDefs |->
        CASE id = AUTO_JOB_ID ->
                 [JobDefs[id] EXCEPT !.flags = <<AUTO_FLAG>>]
          [] id = MANUAL_JOB_ID ->
                 [JobDefs[id] EXCEPT
                     !.siblings = <<[id |-> "suspend-again",
                                     depends |-> <<MANUAL_JOB_ID>>]>>]
          [] OTHER -> JobDefs[id]]

VARIABLE
    provider            \* the provider the job definitions of the session
                        \* were loaded from

JobDef(id) ==
    IF provider = "self-linked" THEN SelfLinkedJobDefs[id]
    ELSE JobDefs[id]

\* ------------------------------------------------------------------------
\* Small helpers
\* ------------------------------------------------------------------------
Range(s) == {s[i] : i \in 1..Len(s)}

\* sorted(S) for a set of ids.
Sorted(S) == SelectSeq(SortedIds, LAMBDA x : x \in S)

RECURSIVE Flatten(_)
Flatten(ss) == IF ss = <<>> THEN <<>> ELSE Head(ss) \o Flatten(Tail(ss))

\* [f(s[1]), f(s[2]), ...]
Map(f(_), s) == [i \in 1..Len(s) |-> f(s[i])]

\* F(v), with v evaluated once.
Let(v, F(_)) == CHOOSE r \in {F(x) : x \in {v}} : TRUE

\* ------------------------------------------------------------------------
\* Session state
\* ------------------------------------------------------------------------
VARIABLES
    job_state_map,      \* id -> [result, readiness_inhibitor_list]
    resource_map,       \* resource id -> list of resource records (a dict)
    unit_list,          \* every unit of the session, generated ones included
    before_references,  \* id -> set of ids naming it in their before field
    desired_job_list,   \* the ids selected to run
    metadata_flags,     \* session_state.metadata.flags
    observed,           \* number of observe_result calls made so far
    raised,             \* exception the last observe_result call ended with
    recompute_log,      \* Len(unit_list) at each readiness recomputation
                        \* made by the last observe_result call
    launcher,           \* the Launcher method under call, its mocked
                        \* collaborators and what the call gave
    cpuid_call,         \* the cpuid_to_human_friendly call under way and
                        \* what it gave
    job_state_order,    \* the keys of job_state_map in insertion order
                        \* (the order a dict is iterated in)
    query               \* the last get_inhibitor_list / get_dependency_set
                        \* call made on its own and what it returned

vars ==
    <<job_state_map, resource_map, unit_list, before_references,
      desired_job_list, metadata_flags, observed, raised, recompute_log,
      launcher, cpuid_call, job_state_order, query, provider>>

\* The session_state object handed to the controller.
SessionState ==
    [job_state_map |-> job_state_map, resource_map |-> resource_map,
     unit_list |-> unit_list, desired_job_list |-> desired_job_list,
     metadata_flags |-> metadata_flags, raised |-> raised,
     recompute_log |-> recompute_log, job_state_order |-> job_state_order]

\* The job object of an id: its declared fields and the runtime-appended
\* before_references set.
Job(id) ==
    Let(JobDef(id), LAMBDA def :
        [id |-> id, plugin |-> def.plugin, depends |-> def.depends,
         after |-> def.after, salvage |-> def.salvage,
         before |-> def.before, requires |-> def.requires,
         flags |-> def.flags, siblings |-> def.siblings,
         before_references |-> before_references[id]])

\* The jobs of the session, in job_state_map order.
job_list == [i \in 1..Len(JobStateOrder) |-> Job(JobStateOrder[i])]

\* ------------------------------------------------------------------------
\* Accessors of the job definition
\* ------------------------------------------------------------------------
get_direct_dependencies(job) == job.depends

get_after_dependencies(job) == job.after

get_salvage_dependencies(job) == job.salvage

get_before_dependencies(job) == job.before

get_resource_program(job) == job.requires

\* ResourceProgram(requires) raises ResourceProgramError when a line of
\* the requires field is not an expression.
ResourceProgramError(prog) ==
    \E i \in 1..Len(prog) : prog[i].text = ExprBad.text

\* Ids of every resource mentioned by the job's requirement program.
get_resource_dependencies(job) ==
    UNION {Range(job.requires[i].resource_id_list) :
           i \in 1..Len(job.requires)}

\* ------------------------------------------------------------------------
\* Dependency Set Builder
\* ------------------------------------------------------------------------
\* Python's `a in b` for two flag words: a is a substring of b.
IsSubstring(a, b) == a = b \/ (a = AUTO_FLAG /\ b = MANUAL_FLAG)

\* `expected_flag in job.flags`, job.flags being the flags field (a string).
FlagInFlags(expected_flag, flags) ==
    \E i \in 1..Len(flags) : IsSubstring(expected_flag, flags[i])

_is_job_impacting_suspend(suspend_job_id, job) ==
    LET expected_flag ==
            IF suspend_job_id = AUTO_JOB_ID THEN AUTO_FLAG ELSE MANUAL_FLAG
    IN  \/ job.flags # <<>> /\ FlagInFlags(expected_flag, job.flags)
        \/ \E i \in 1..Len(job.siblings) :
               suspend_job_id \in Range(job.siblings[i].depends)

_get_before_suspend_dependency_set(suspend_job_id, jobs) ==
    {jobs[i].id : i \in {k \in 1..Len(jobs) :
                            _is_job_impacting_suspend(suspend_job_id, jobs[k])}}

\* get_dependency_set leaving out the before_references.
get_dependency_set_NoBeforeRefs(job, jobs) ==
    {<<DEPENDS, d>> : d \in get_direct_dependencies(job)}
    \cup {<<RESOURCE, d>> : d \in get_resource_dependencies(job)}
    \cup {<<AFTER, d>> : d \in get_after_dependencies(job)}
    \cup {<<AFTER, d>> :
             d \in IF job.id \in {AUTO_JOB_ID, MANUAL_JOB_ID}
                   THEN _get_before_suspend_dependency_set(job.id, jobs)
                   ELSE {}}

\* get_dependency_set giving up on every edge when the requires field
\* cannot be parsed.
get_dependency_set_ErrorDropsAll(job, jobs) ==
    IF ResourceProgramError(job.requires) THEN {}
    ELSE get_dependency_set_NoBeforeRefs(job, jobs)
         \cup {<<BEFORE, d>> : d \in job.before_references}

get_dependency_set(job, jobs) ==
    LET direct_deps == get_direct_dependencies(job)
        after_deps == get_after_dependencies(job)
        before_refs == job.before_references
        resource_deps ==
            IF ResourceProgramError(job.requires) THEN {}
            ELSE get_resource_dependencies(job)
        suspend_deps ==
            IF job.id \in {AUTO_JOB_ID, MANUAL_JOB_ID}
            THEN _get_before_suspend_dependency_set(job.id, jobs)
            ELSE {}
    IN  {<<DEPENDS, d>> : d \in direct_deps}
        \cup {<<RESOURCE, d>> : d \in resource_deps}
        \cup {<<AFTER, d>> : d \in after_deps}
        \cup {<<AFTER, d>> : d \in suspend_deps}
        \cup {<<BEFORE, d>> : d \in before_refs}

\* ------------------------------------------------------------------------
\* Before-Reference Linker
\* ------------------------------------------------------------------------
\* add_before_deps linking every target found in the global catalog, part
\* of the current test plan or not.
add_before_deps_NoPlanCheck(refs, job, job_map, global_job_map) ==
    [dep_id \in DOMAIN refs |->
        IF /\ dep_id \in get_before_dependencies(job)
           /\ dep_id \in global_job_map
        THEN refs[dep_id] \cup {job.id}
        ELSE refs[dep_id]]

\* The before_references of every job after add_before_deps(job, job_map,
\* global_job_map): job_map is the set of active ids, global_job_map the
\* set of catalog ids.
add_before_deps(refs, job, job_map, global_job_map) ==
    [dep_id \in DOMAIN refs |->
        IF /\ dep_id \in get_before_dependencies(job)
           /\ dep_id \in global_job_map
           /\ dep_id \in job_map
        THEN refs[dep_id] \cup {job.id}
        ELSE refs[dep_id]]

\* ------------------------------------------------------------------------
\* Resource Evaluator
\* ------------------------------------------------------------------------
\* An expression is true when every comparison it makes holds for some
\* record of the resource it names.
ExpressionTrue(expression, rmap) ==
    \A t \in expression.terms :
        \E i \in 1..Len(rmap[t[1]]) : <<t[2], t[3]>> \in rmap[t[1]][i]

ExpressionCanEvaluate(expression, rmap) ==
    \A r \in Range(expression.resource_id_list) : r \in DOMAIN rmap

\* prog.evaluate_or_raise(resource_map): "ok", or the exception raised and
\* the expression it carries.
evaluate_or_raise(prog, rmap) ==
    LET missing == {i \in 1..Len(prog) : ~ExpressionCanEvaluate(prog[i], rmap)}
        false == {i \in 1..Len(prog) :
                     /\ ExpressionCanEvaluate(prog[i], rmap)
                     /\ ~ExpressionTrue(prog[i], rmap)}
        first(S) == CHOOSE i \in S : \A k \in S : i <= k
    IN  IF missing # {}
        THEN [kind |-> "ExpressionCannotEvaluateError",
              expression |-> prog[first(missing)]]
        ELSE IF false # {}
        THEN [kind |-> "ExpressionFailedError",
              expression |-> prog[first(false)]]
        ELSE [kind |-> "ok", expression |-> None]

\* ------------------------------------------------------------------------
\* Readiness Inhibitor Engine
\* ------------------------------------------------------------------------
JobReadinessInhibitor(cause, related_job, related_expression) ==
    [cause |-> cause, related_job |-> related_job,
     related_expression |-> related_expression]

UndesiredJobReadinessInhibitor == JobReadinessInhibitor(UNDESIRED, None, None)

Outcome(session_state, id) == session_state.job_state_map[id].result.outcome

\* _get_suspend_inhibitor_list looking at every job, desired or not.
_get_suspend_inhibitor_list_AllJobs(session_state, suspend_job) ==
    LET suspend_inhibitors_jobs ==
            SelectSeq(session_state.job_state_order, LAMBDA id :
                _is_job_impacting_suspend(suspend_job.id, Job(id)))
        pending ==
            SelectSeq(suspend_inhibitors_jobs, LAMBDA id :
                Outcome(session_state, id) = OUTCOME_NONE)
    IN  [i \in 1..Len(pending) |->
            JobReadinessInhibitor(PENDING_DEP, pending[i], None)]

\* _get_suspend_inhibitor_list inhibiting whatever the outcome of the
\* linked jobs.
_get_suspend_inhibitor_list_AnyOutcome(session_state, suspend_job) ==
    LET run_list ==
            SelectSeq(session_state.job_state_order, LAMBDA id :
                UndesiredJobReadinessInhibitor \notin
                    Range(session_state.job_state_map[id]
                              .readiness_inhibitor_list))
        suspend_inhibitors_jobs ==
            SelectSeq(run_list, LAMBDA id :
                _is_job_impacting_suspend(suspend_job.id, Job(id)))
    IN  [i \in 1..Len(suspend_inhibitors_jobs) |->
            JobReadinessInhibitor(PENDING_DEP, suspend_inhibitors_jobs[i],
                                  None)]

\* _get_suspend_inhibitor_list taking the undesired jobs for the run
\* list.
_get_suspend_inhibitor_list_UndesiredJobs(session_state, suspend_job) ==
    LET run_list ==
            SelectSeq(session_state.job_state_order, LAMBDA id :
                UndesiredJobReadinessInhibitor \in
                    Range(session_state.job_state_map[id]
                              .readiness_inhibitor_list))
        suspend_inhibitors_jobs ==
            SelectSeq(run_list, LAMBDA id :
                _is_job_impacting_suspend(suspend_job.id, Job(id)))
        pending ==
            SelectSeq(suspend_inhibitors_jobs, LAMBDA id :
                Outcome(session_state, id) = OUTCOME_NONE)
    IN  [i \in 1..Len(pending) |->
            JobReadinessInhibitor(PENDING_DEP, pending[i], None)]

_get_suspend_inhibitor_list(session_state, suspend_job) ==
    LET run_list ==
            SelectSeq(session_state.job_state_order, LAMBDA id :
                UndesiredJobReadinessInhibitor \notin
                    Range(session_state.job_state_map[id]
                              .readiness_inhibitor_list))
        suspend_inhibitors_jobs ==
            SelectSeq(run_list, LAMBDA id :
                _is_job_impacting_suspend(suspend_job.id, Job(id)))
        pending ==
            SelectSeq(suspend_inhibitors_jobs, LAMBDA id :
                Outcome(session_state, id) = OUTCOME_NONE)
    IN  [i \in 1..Len(pending) |->
            JobReadinessInhibitor(PENDING_DEP, pending[i], None)]

\* ResourceInhibitors skipping the resources whose job has not passed.
ResourceInhibitors_SkipNotPassed(session_state, job) ==
    LET prog == get_resource_program(job)
        res == evaluate_or_raise(prog, session_state.resource_map)
        ids == res.expression.resource_id_list
        waiting ==
            SelectSeq(ids, LAMBDA r :
                Outcome(session_state, r) = OUTCOME_PASS)
    IN  IF prog = <<>> \/ res.kind = "ok" THEN <<>>
        ELSE IF res.kind = "ExpressionCannotEvaluateError"
        THEN [i \in 1..Len(waiting) |->
                 JobReadinessInhibitor(PENDING_RESOURCE, waiting[i],
                                       res.expression.text)]
        ELSE [i \in 1..Len(ids) |->
                 JobReadinessInhibitor(FAILED_RESOURCE, ids[i],
                                       res.expression.text)]

\* ResourceInhibitors blaming, when the expression is false, only the
\* resources whose own records falsify a comparison.
ResourceInhibitors_OnlyFalsifying(session_state, job) ==
    LET prog == get_resource_program(job)
        res == evaluate_or_raise(prog, session_state.resource_map)
        ids == res.expression.resource_id_list
        waiting ==
            SelectSeq(ids, LAMBDA r :
                Outcome(session_state, r) # OUTCOME_PASS)
        falsifying ==
            SelectSeq(ids, LAMBDA r :
                \E t \in res.expression.terms :
                    /\ t[1] = r
                    /\ \A i \in 1..Len(session_state.resource_map[r]) :
                           <<t[2], t[3]>> \notin session_state.resource_map[r][i])
    IN  IF prog = <<>> \/ res.kind = "ok" THEN <<>>
        ELSE IF res.kind = "ExpressionCannotEvaluateError"
        THEN [i \in 1..Len(waiting) |->
                 JobReadinessInhibitor(PENDING_RESOURCE, waiting[i],
                                       res.expression.text)]
        ELSE [i \in 1..Len(falsifying) |->
                 JobReadinessInhibitor(FAILED_RESOURCE, falsifying[i],
                                       res.expression.text)]

\* ResourceInhibitors waiting for every resource of an expression that
\* cannot be evaluated, passed or not.
ResourceInhibitors_PendingAlways(session_state, job) ==
    LET prog == get_resource_program(job)
        res == evaluate_or_raise(prog, session_state.resource_map)
        ids == res.expression.resource_id_list
    IN  IF prog = <<>> \/ res.kind = "ok" THEN <<>>
        ELSE IF res.kind = "ExpressionCannotEvaluateError"
        THEN [i \in 1..Len(ids) |->
                 JobReadinessInhibitor(PENDING_RESOURCE, ids[i],
                                       res.expression.text)]
        ELSE [i \in 1..Len(ids) |->
                 JobReadinessInhibitor(FAILED_RESOURCE, ids[i],
                                       res.expression.text)]

\* Inhibitors of the resource requirement step.
ResourceInhibitors(session_state, job) ==
    LET prog == get_resource_program(job)
        res == evaluate_or_raise(prog, session_state.resource_map)
        ids == res.expression.resource_id_list
        waiting ==
            SelectSeq(ids, LAMBDA r :
                Outcome(session_state, r) # OUTCOME_PASS)
    IN  IF prog = <<>> \/ res.kind = "ok" THEN <<>>
        ELSE IF res.kind = "ExpressionCannotEvaluateError"
        THEN [i \in 1..Len(waiting) |->
                 JobReadinessInhibitor(PENDING_RESOURCE, waiting[i],
                                       res.expression.text)]
        ELSE [i \in 1..Len(ids) |->
                 JobReadinessInhibitor(FAILED_RESOURCE, ids[i],
                                       res.expression.text)]

\* DirectInhibitors taking only outcome "fail" for a failed dependency.
DirectInhibitors_OnlyFail(session_state, job) ==
    LET deps == Sorted(get_direct_dependencies(job))
        inhibiting ==
            SelectSeq(deps, LAMBDA d :
                Outcome(session_state, d) \in {OUTCOME_NONE, OUTCOME_FAIL})
    IN  [i \in 1..Len(inhibiting) |->
            IF Outcome(session_state, inhibiting[i]) = OUTCOME_NONE
            THEN JobReadinessInhibitor(PENDING_DEP, inhibiting[i], None)
            ELSE JobReadinessInhibitor(FAILED_DEP, inhibiting[i], None)]

\* Inhibitors of the hard dependency step.
DirectInhibitors(session_state, job) ==
    LET deps == Sorted(get_direct_dependencies(job))
        inhibiting ==
            SelectSeq(deps, LAMBDA d :
                Outcome(session_state, d) # OUTCOME_PASS)
    IN  [i \in 1..Len(inhibiting) |->
            IF Outcome(session_state, inhibiting[i]) = OUTCOME_NONE
            THEN JobReadinessInhibitor(PENDING_DEP, inhibiting[i], None)
            ELSE JobReadinessInhibitor(FAILED_DEP, inhibiting[i], None)]

\* AfterInhibitors inhibiting on a failed dependency as well.
AfterInhibitors_AlsoFailed(session_state, job) ==
    LET deps == Sorted(get_after_dependencies(job))
        inhibiting ==
            SelectSeq(deps, LAMBDA d :
                Outcome(session_state, d) \in {OUTCOME_NONE, OUTCOME_FAIL})
    IN  [i \in 1..Len(inhibiting) |->
            JobReadinessInhibitor(PENDING_DEP, inhibiting[i], None)]

\* Inhibitors of the after dependency step.
AfterInhibitors(session_state, job) ==
    LET deps == Sorted(get_after_dependencies(job))
        pending ==
            SelectSeq(deps, LAMBDA d :
                Outcome(session_state, d) = OUTCOME_NONE)
    IN  [i \in 1..Len(pending) |->
            JobReadinessInhibitor(PENDING_DEP, pending[i], None)]

\* SalvageInhibitors reporting a dependency that has not run as pending.
SalvageInhibitors_PendingOnNone(session_state, job) ==
    LET deps == Sorted(get_salvage_dependencies(job))
        notfailed ==
            SelectSeq(deps, LAMBDA d :
                Outcome(session_state, d) # OUTCOME_FAIL)
    IN  [i \in 1..Len(notfailed) |->
            IF Outcome(session_state, notfailed[i]) = OUTCOME_NONE
            THEN JobReadinessInhibitor(PENDING_DEP, notfailed[i], None)
            ELSE JobReadinessInhibitor(NOT_FAILED_DEP, notfailed[i], None)]

\* Inhibitors of the salvage dependency step.
SalvageInhibitors(session_state, job) ==
    LET deps == Sorted(get_salvage_dependencies(job))
        notfailed ==
            SelectSeq(deps, LAMBDA d :
                Outcome(session_state, d) # OUTCOME_FAIL)
    IN  [i \in 1..Len(notfailed) |->
            JobReadinessInhibitor(NOT_FAILED_DEP, notfailed[i], None)]

\* get_inhibitor_list without the salvage dependency step.
get_inhibitor_list_NoSalvage(session_state, job) ==
    ResourceInhibitors(session_state, job)
    \o DirectInhibitors(session_state, job)
    \o AfterInhibitors(session_state, job)
    \o (IF job.id \in {AUTO_JOB_ID, MANUAL_JOB_ID}
        THEN _get_suspend_inhibitor_list(session_state, job)
        ELSE <<>>)

get_inhibitor_list(session_state, job) ==
    ResourceInhibitors(session_state, job)
    \o DirectInhibitors(session_state, job)
    \o AfterInhibitors(session_state, job)
    \o SalvageInhibitors(session_state, job)
    \o (IF job.id \in {AUTO_JOB_ID, MANUAL_JOB_ID}
        THEN _get_suspend_inhibitor_list(session_state, job)
        ELSE <<>>)

\* ------------------------------------------------------------------------
\* Job results and their captured output
\* ------------------------------------------------------------------------
\* One io_log record: the stream and the decoded line, which is a
\* "key: value" line, a blank line, or a line that is neither.
IoRecord(stream, kind, key, value) ==
    [stream |-> stream, kind |-> kind, key |-> key, value |-> value]

OutX == IoRecord("stdout", "kv", "attr", "x")
OutY == IoRecord("stdout", "kv", "attr", "y")
OutOther == IoRecord("stdout", "kv", "other", "z")
OutBlank == IoRecord("stdout", "blank", None, None)
OutBad == IoRecord("stdout", "bad", None, None)
ErrX == IoRecord("stderr", "kv", "attr", "x")

\* Resource(data): a record is the set of its (key, value) pairs.
Resource(data) == data

EmptyResource == Resource({})

RECURSIVE ParseRecords(_, _, _)
\* gen_rfc822_records over the remaining lines, `cur` being the paragraph
\* read so far and `out` the records already yielded.  A line that is not
\* "key: value", or a key repeated within a paragraph, is a syntax error.
ParseRecords(lines, cur, out) ==
    IF lines = <<>>
    THEN [records |-> IF cur = {} THEN out ELSE Append(out, cur),
          error |-> FALSE]
    ELSE LET l == Head(lines) IN
         IF l.kind = "blank"
         THEN ParseRecords(Tail(lines), {},
                           IF cur = {} THEN out ELSE Append(out, cur))
         ELSE IF l.kind = "kv" /\ ~(\E p \in cur : p[1] = l.key)
         THEN ParseRecords(Tail(lines), cur \cup {<<l.key, l.value>>}, out)
         ELSE [records |-> out, error |-> TRUE]

\* The records yielded before the parser stops (at the end of the input or
\* at its first RFC822SyntaxError).
gen_rfc822_records(lines) ==
    ParseRecords(lines, {}, <<>>).records

\* gen_rfc822_records_from_io_log yielding nothing when the output has a
\* syntax error.
gen_rfc822_records_from_io_log_NoPartial(job, result) ==
    LET line_gen == SelectSeq(result.io_log, LAMBDA r : r.stream = "stdout")
        parsed == ParseRecords(line_gen, {}, <<>>)
    IN  IF parsed.error THEN <<>> ELSE parsed.records

gen_rfc822_records_from_io_log(job, result) ==
    LET line_gen == SelectSeq(result.io_log, LAMBDA r : r.stream = "stdout")
    IN  gen_rfc822_records(line_gen)

\* ------------------------------------------------------------------------
\* Units and templates
\* ------------------------------------------------------------------------
Unit(kind, id, resource_id, via, template, value, errors) ==
    [kind |-> kind, id |-> id, resource_id |-> resource_id, via |-> via,
     template |-> template, value |-> value, errors |-> errors]

JobUnit(id) == Unit("job", id, None, None, None, None, <<>>)

TemplateUnit(id, resource_id) ==
    Unit("template", id, resource_id, None, None, None, <<>>)

\* The units loaded with the session: its jobs, two templates bound to the
\* resource job R and one bound to a resource that is not R.
InitialUnits ==
    [i \in 1..Len(JobStateOrder) |-> JobUnit(JobStateOrder[i])]
    \o <<TemplateUnit("t1", "R"), TemplateUnit("t2", "R"),
         TemplateUnit("t3", "R2")>>

\* The value a record gives to the template parameter "attr".
MissingValue == "<missing>"
FakeValue == "{attr}"
ParamValue(resource) ==
    IF \E p \in resource : p[1] = "attr"
    THEN (CHOOSE p \in resource : p[1] = "attr")[2]
    ELSE MissingValue

\* The id "<template>-{attr}" with the parameter substituted.
GeneratedId(template_id, value) ==
    CASE template_id = "t1" /\ value = "x" -> "t1-x"
      [] template_id = "t1" /\ value = "y" -> "t1-y"
      [] template_id = "t2" /\ value = "x" -> "t2-x"
      [] template_id = "t2" /\ value = "y" -> "t2-y"
      [] template_id = "t3" /\ value = "x" -> "t3-x"
      [] template_id = "t3" /\ value = "y" -> "t3-y"
      [] template_id = "t1" -> "t1-{attr}"
      [] template_id = "t2" -> "t2-{attr}"
      [] OTHER -> "t3-{attr}"

\* template_unit.instantiate_all(parsed_resource, fake_resources): one
\* candidate job per resource record.
instantiate_all(template_unit, parsed_resource, fake_resources) ==
    [i \in 1..Len(parsed_resource) |->
        LET value == IF fake_resources THEN FakeValue
                     ELSE ParamValue(parsed_resource[i])
        IN  Unit("job", GeneratedId(template_unit.id, value), None, None,
                 template_unit.id, value, <<>>)]

\* unit.check(): "MissingParam" when the record lacks the parameter, or
\* the list of findings.  Jobs of t1 made from value y carry an error,
\* jobs of t2 made from value y carry a warning.
check(unit) ==
    IF unit.value = MissingValue
    THEN [raises |-> "MissingParam", findings |-> <<>>]
    ELSE IF unit.value = "y" /\ unit.template = "t1"
    THEN [raises |-> None, findings |-> <<"error">>]
    ELSE IF unit.value = "y" /\ unit.template = "t2"
    THEN [raises |-> None, findings |-> <<"warning">>]
    ELSE [raises |-> None, findings |-> <<>>]

\* _filter_invalid_log discarding a unit for any finding.
_filter_invalid_log_DropWarnings(unit) ==
    LET check_result == check(unit)
    IN  IF check_result.raises = "MissingParam" THEN FALSE
        ELSE check_result.findings = <<>>

_filter_invalid_log(unit) ==
    LET check_result == check(unit)
        errors == SelectSeq(check_result.findings, LAMBDA c : c = "error")
    IN  IF check_result.raises = "MissingParam" THEN FALSE
        ELSE errors = <<>>

\* _wrap_invalid_units taking warnings for errors.
_wrap_invalid_units_WarningsToo(unit) ==
    LET check_result == check(unit)
        errors ==
            IF check_result.raises = "MissingParam" THEN <<"MissingParam">>
            ELSE check_result.findings
    IN  IF errors = <<>> THEN unit
        ELSE [unit EXCEPT !.kind = "invalid job", !.errors = errors]

_wrap_invalid_units(unit) ==
    LET check_result == check(unit)
        errors ==
            IF check_result.raises = "MissingParam" THEN <<"MissingParam">>
            ELSE SelectSeq(check_result.findings, LAMBDA c : c = "error")
    IN  IF errors = <<>> THEN unit
        ELSE [unit EXCEPT !.kind = "invalid job", !.errors = errors]

\* session_state._recompute_job_readiness(): an undesired job carries the
\* UNDESIRED inhibitor alone, a desired job what get_inhibitor_list gives.
_recompute_job_readiness(session_state) ==
    LET Reset(state) ==
            [state EXCEPT !.job_state_map =
                [id \in DOMAIN @ |->
                    [@[id] EXCEPT !.readiness_inhibitor_list =
                        IF id \in state.desired_job_list THEN <<>>
                        ELSE <<UndesiredJobReadinessInhibitor>>]]]
        Recomputed(reset) ==
            [reset EXCEPT
                !.job_state_map =
                    [id \in DOMAIN @ |->
                        [@[id] EXCEPT !.readiness_inhibitor_list =
                            IF id \in reset.desired_job_list
                            THEN get_inhibitor_list(reset, Job(id))
                            ELSE <<UndesiredJobReadinessInhibitor>>]],
                !.recompute_log = Append(@, Len(reset.unit_list))]
    IN  Let(Let(session_state, Reset), Recomputed)

\* session_state.add_unit(new_unit, via=job, recompute=...)
add_unit(session_state, new_unit, via, recompute) ==
    LET added ==
            [session_state EXCEPT
                !.unit_list = Append(@, [new_unit EXCEPT !.via = via])]
    IN  IF recompute THEN _recompute_job_readiness(added) ELSE added

\* The insertion loop recomputing readiness after every insertion.
RECURSIVE add_units_RecomputeEach(_, _, _)
add_units_RecomputeEach(session_state, new_units, via) ==
    IF new_units = <<>> THEN session_state
    ELSE Let(add_unit(session_state, Head(new_units), via, TRUE),
             LAMBDA added :
                 add_units_RecomputeEach(added, Tail(new_units), via))

\* for new_unit in new_units: add_unit(new_unit, via=job, recompute=False)
RECURSIVE add_units(_, _, _)
add_units(session_state, new_units, via) ==
    IF new_units = <<>> THEN session_state
    ELSE Let(add_unit(session_state, Head(new_units), via, FALSE),
             LAMBDA added : add_units(added, Tail(new_units), via))

\* ------------------------------------------------------------------------
\* Result Observer, Resource Parser, Template Instantiator
\* ------------------------------------------------------------------------
\* _parse_and_store_resource without the early return on outcome NONE.
_parse_and_store_resource_NoSkip(session_state, job, result) ==
    LET parsed == gen_rfc822_records_from_io_log(job, result)
        new_resource_list ==
            IF parsed = <<>> THEN <<EmptyResource>> ELSE parsed
    IN  [session_state EXCEPT !.resource_map =
            (job.id :> new_resource_list) @@ @]

\* _parse_and_store_resource appending to the records already stored.
_parse_and_store_resource_Append(session_state, job, result) ==
    IF result.outcome = OUTCOME_NONE THEN session_state
    ELSE LET parsed == gen_rfc822_records_from_io_log(job, result)
             old == IF job.id \in DOMAIN session_state.resource_map
                    THEN session_state.resource_map[job.id] ELSE <<>>
             new_resource_list ==
                 IF parsed = <<>> THEN <<EmptyResource>> ELSE old \o parsed
         IN  [session_state EXCEPT !.resource_map =
                 (job.id :> new_resource_list) @@ @]

\* _parse_and_store_resource storing the parsed list as it is.
_parse_and_store_resource_NoSentinel(session_state, job, result) ==
    IF result.outcome = OUTCOME_NONE THEN session_state
    ELSE [session_state EXCEPT !.resource_map =
             (job.id :> gen_rfc822_records_from_io_log(job, result)) @@ @]

_parse_and_store_resource(session_state, job, result) ==
    IF result.outcome = OUTCOME_NONE THEN session_state
    ELSE LET parsed == gen_rfc822_records_from_io_log(job, result)
             new_resource_list ==
                 IF parsed = <<>> THEN <<EmptyResource>> ELSE parsed
         IN  [session_state EXCEPT !.resource_map =
                 (job.id :> new_resource_list) @@ @]

\* _instantiate_templates dropping invalid candidates in both modes.
_instantiate_templates_FilterAlways(session_state, job, result, fake) ==
    IF result.outcome = OUTCOME_NONE THEN session_state
    ELSE LET template_units ==
                 SelectSeq(session_state.unit_list, LAMBDA unit :
                     unit.kind = "template" /\ unit.resource_id = job.id)
             parsed_resource == session_state.resource_map[job.id]
             new_units_lists ==
                 [i \in 1..Len(template_units) |->
                     instantiate_all(template_units[i], parsed_resource,
                                     fake)]
             new_units == Flatten(new_units_lists)
         IN  Let(SelectSeq(new_units, _filter_invalid_log), LAMBDA units :
                 _recompute_job_readiness(
                     add_units(session_state, units, job.id)))

\* _instantiate_templates dropping the units generated from the earlier
\* records of the job before inserting the new ones.
_instantiate_templates_DropGenerated(session_state, job, result, fake_resources) ==
    IF result.outcome = OUTCOME_NONE THEN session_state
    ELSE LET template_units ==
                 SelectSeq(session_state.unit_list, LAMBDA unit :
                     unit.kind = "template" /\ unit.resource_id = job.id)
             parsed_resource == session_state.resource_map[job.id]
             new_units_lists ==
                 [i \in 1..Len(template_units) |->
                     instantiate_all(template_units[i], parsed_resource,
                                     fake_resources)]
             new_units == Flatten(new_units_lists)
             kept ==
                 IF FLAG_FEATURE_STRICT_TEMPLATE_EXPANSION
                        \in session_state.metadata_flags
                 THEN Map(_wrap_invalid_units, new_units)
                 ELSE SelectSeq(new_units, _filter_invalid_log)
             dropped ==
                 [session_state EXCEPT !.unit_list =
                     SelectSeq(@, LAMBDA unit : unit.via # job.id)]
         IN  Let(kept, LAMBDA units :
                 _recompute_job_readiness(
                     add_units(dropped, units, job.id)))

\* _instantiate_templates expanding every template of the session,
\* whatever resource it is bound to.
_instantiate_templates_AllTemplates(session_state, job, result, fake_resources) ==
    IF result.outcome = OUTCOME_NONE THEN session_state
    ELSE LET template_units ==
                 SelectSeq(session_state.unit_list, LAMBDA unit :
                     unit.kind = "template")
             parsed_resource == session_state.resource_map[job.id]
             new_units_lists ==
                 [i \in 1..Len(template_units) |->
                     instantiate_all(template_units[i], parsed_resource,
                                     fake_resources)]
             new_units == Flatten(new_units_lists)
             kept ==
                 IF FLAG_FEATURE_STRICT_TEMPLATE_EXPANSION
                        \in session_state.metadata_flags
                 THEN Map(_wrap_invalid_units, new_units)
                 ELSE SelectSeq(new_units, _filter_invalid_log)
         IN  Let(kept, LAMBDA units :
                 _recompute_job_readiness(
                     add_units(session_state, units, job.id)))

_instantiate_templates(session_state, job, result, fake_resources) ==
    IF result.outcome = OUTCOME_NONE THEN session_state
    ELSE LET template_units ==
                 SelectSeq(session_state.unit_list, LAMBDA unit :
                     unit.kind = "template" /\ unit.resource_id = job.id)
             parsed_resource == session_state.resource_map[job.id]
             new_units_lists ==
                 [i \in 1..Len(template_units) |->
                     instantiate_all(template_units[i], parsed_resource,
                                     fake_resources)]
             new_units == Flatten(new_units_lists)
             kept ==
                 IF FLAG_FEATURE_STRICT_TEMPLATE_EXPANSION
                        \in session_state.metadata_flags
                 THEN Map(_wrap_invalid_units, new_units)
                 ELSE SelectSeq(new_units, _filter_invalid_log)
         IN  Let(kept, LAMBDA units :
                 _recompute_job_readiness(
                     add_units(session_state, units, job.id)))

\* _process_resource_result instantiating whatever list is stored.
_process_resource_result_Always(session_state, job, result, fake_resources) ==
    LET Rest(stored) ==
            IF job.id \notin DOMAIN stored.resource_map
            THEN [stored EXCEPT !.raised = "KeyError"]
            ELSE _instantiate_templates(stored, job, result, fake_resources)
    IN  Let(_parse_and_store_resource(session_state, job, result), Rest)

\* _process_resource_result recomputing readiness before the replacement
\* instead of after the insertions.
_process_resource_result_RecomputeFirst(session_state, job, result, fake) ==
    LET Readiness(early, done) ==
            [done EXCEPT
                !.job_state_map =
                    [id \in DOMAIN @ |->
                        [@[id] EXCEPT !.readiness_inhibitor_list =
                            early.job_state_map[id]
                                 .readiness_inhibitor_list]],
                !.recompute_log = early.recompute_log]
        Rest(stored) ==
            IF job.id \notin DOMAIN stored.resource_map
            THEN [stored EXCEPT !.raised = "KeyError"]
            ELSE IF stored.resource_map[job.id] # <<EmptyResource>>
                    /\ result.outcome # OUTCOME_NONE
            THEN Readiness(_recompute_job_readiness(session_state),
                           _instantiate_templates(stored, job, result,
                                                  fake))
            ELSE stored
    IN  Let(_parse_and_store_resource(session_state, job, result), Rest)

_process_resource_result(session_state, job, result, fake_resources) ==
    LET Rest(stored) ==
            IF job.id \notin DOMAIN stored.resource_map
            THEN [stored EXCEPT !.raised = "KeyError"]
            ELSE IF stored.resource_map[job.id] # <<EmptyResource>>
            THEN _instantiate_templates(stored, job, result, fake_resources)
            ELSE stored
    IN  Let(_parse_and_store_resource(session_state, job, result), Rest)

\* session_state.job_state_map[job.id].result = result, at the start of a
\* call (nothing raised yet, no recomputation made yet).
store_result(session_state, job, result) ==
    [session_state EXCEPT
        !.job_state_map[job.id].result = result,
        !.raised = None,
        !.recompute_log = <<>>]

\* The two signals of the session; the handlers connected to them are
\* outside the controller and leave the state it works on as it is.
on_job_state_map_changed(session_state) == session_state

on_job_result_changed(session_state, job, result) == session_state

\* observe_result overwriting a result only when the job has not passed.
observe_result_KeepPass(session_state, job, result, fake_resources) ==
    LET stored ==
            IF Outcome(session_state, job.id) = OUTCOME_PASS
            THEN [session_state EXCEPT !.raised = None,
                                       !.recompute_log = <<>>]
            ELSE store_result(session_state, job, result)
    IN  IF job.plugin = "resource"
        THEN _process_resource_result(stored, job, result, fake_resources)
        ELSE stored

observe_result(session_state, job, result, fake_resources) ==
    LET stored == store_result(session_state, job, result)
        notified ==
            on_job_result_changed(on_job_state_map_changed(stored),
                                  job, result)
    IN  IF job.plugin = "resource"
        THEN _process_resource_result(notified, job, result, fake_resources)
        ELSE notified

\* ------------------------------------------------------------------------
\* Inputs
\* ------------------------------------------------------------------------
\* Captured outputs: nothing, one record, another record.
SmallLogs == {<<>>, <<OutX>>, <<OutY>>}

\* Captured outputs of a resource job: also two records, a repeated
\* record, a record without the template parameter, a malformed line
\* first, in the middle and last, and output on stderr only.
IoLogs ==
    SmallLogs \cup
    {<<OutX, OutBlank, OutY>>, <<OutX, OutBlank, OutX>>, <<OutOther>>,
     <<OutBad, OutBlank, OutX>>, <<OutX, OutBlank, OutBad, OutBlank, OutY>>,
     <<OutX, OutBad>>, <<ErrX>>, <<ErrX, OutY>>}

Result(outcome, io_log) == [outcome |-> outcome, io_log |-> io_log]

\* The outputs tried for a job; a job that is not a resource job prints a
\* well-formed record, which must not be taken for a resource.
LogsOf(id) ==
    IF JobDef(id).plugin = "resource" THEN SmallLogs ELSE {<<OutX>>}

\* The outcomes tried for a job: all of them for a job whose outcome some
\* other job's readiness reads, three of them for the two checkpoint
\* jobs, which no job depends on.
OutcomesOf(id) ==
    IF id \in {AUTO_JOB_ID, MANUAL_JOB_ID}
    THEN {OUTCOME_NONE, OUTCOME_PASS, OUTCOME_FAIL}
    ELSE Outcomes

\* The jobs add_before_deps is tried on: those with a before field (for
\* the others its loop body never runs).
LinkingJobIds == {id \in JobIds : JobDef(id).before # {}}

\* Selections of jobs to run: everything, or everything but A, or but B.
DesiredChoices == {JobIds, JobIds \ {"A"}, JobIds \ {"B"}}

\* ------------------------------------------------------------------------
\* Specification
\* ------------------------------------------------------------------------
\* The session once its jobs are loaded and selected: no result yet, no
\* resource, no back-reference, readiness computed for the selection.
InitProvided(from, desired, flags, units) ==
    /\ provider = from
    /\ desired_job_list = desired
    /\ metadata_flags = flags
    /\ resource_map = <<>>
    /\ unit_list = units
    /\ before_references = [id \in GlobalJobIds |-> {}]
    /\ observed = 0
    /\ raised = None
    /\ recompute_log = <<>>
    /\ launcher = None
    /\ cpuid_call = None
    /\ query = [call |-> None, id |-> None, returned |-> <<>>]
    /\ job_state_order = JobStateOrder
    /\ job_state_map =
        _recompute_job_readiness(
            [job_state_map |->
                [id \in JobIds |->
                    [result |-> Result(OUTCOME_NONE, <<>>),
                     readiness_inhibitor_list |->
                        <<UndesiredJobReadinessInhibitor>>]],
             resource_map |-> <<>>, unit_list |-> units,
             desired_job_list |-> desired, metadata_flags |-> flags,
             raised |-> None, recompute_log |-> <<>>,
             job_state_order |-> JobStateOrder]).job_state_map

InitSessionUnits(desired, flags, units) ==
    InitProvided("base", desired, flags, units)

InitSession(desired, flags) == InitSessionUnits(desired, flags, InitialUnits)

Init == \E desired \in DesiredChoices : InitSession(desired, {})

\* add_before_deps(job, job_map, global_job_map) for one job of the list.
AddBeforeDeps(id) ==
    /\ before_references' =
           add_before_deps(before_references, Job(id), JobIds, GlobalJobIds)
    /\ UNCHANGED <<job_state_map, resource_map, unit_list, desired_job_list,
                   metadata_flags, observed, raised, recompute_log,
                   launcher, cpuid_call,
                   job_state_order, query, provider>>

\* observe_result(session_state, job, result, fake_resources)
ObserveResult(id, result, fake_resources) ==
    /\ observed < MaxObserve
    /\ \E after \in
            {observe_result(SessionState, Job(id), result, fake_resources)} :
           /\ job_state_map' = after.job_state_map
           /\ resource_map' = after.resource_map
           /\ unit_list' = after.unit_list
           /\ raised' = after.raised
           /\ recompute_log' = after.recompute_log
    /\ observed' = observed + 1
    /\ UNCHANGED <<before_references, desired_job_list, metadata_flags,
                   launcher, cpuid_call,
                   job_state_order, query, provider>>

Next ==
    \/ \E id \in LinkingJobIds : AddBeforeDeps(id)
    \/ \E id \in JobIds :
           \E outcome \in OutcomesOf(id), io_log \in LogsOf(id) :
               ObserveResult(id, Result(outcome, io_log), FALSE)

Spec == Init /\ [][Next]_vars

\* The resource pipeline alone: results of the resource job, with every
\* captured output, with real and with fake resources (Spec runs with
\* real ones), in lenient and in strict template expansion.
InitRes ==
    \E flags \in {{}, {FLAG_FEATURE_STRICT_TEMPLATE_EXPANSION}} :
        InitSession(JobIds, flags)

\* The outcomes tried on the resource job there: the pipeline only tells
\* NONE from the others, readiness tells NONE, PASS, FAIL and the rest.
ResourceOutcomes ==
    {OUTCOME_NONE, OUTCOME_PASS, OUTCOME_FAIL, OUTCOME_CRASH}

NextRes ==
    \E outcome \in ResourceOutcomes, io_log \in IoLogs,
       fake_resources \in BOOLEAN :
        ObserveResult("R", Result(outcome, io_log), fake_resources)

SpecRes == InitRes /\ [][NextRes]_vars

\* The units of a session with a single template bound to R.
SingleTemplateUnits(template_id) ==
    [i \in 1..Len(JobStateOrder) |-> JobUnit(JobStateOrder[i])]
    \o <<TemplateUnit(template_id, "R"), TemplateUnit("t3", "R2")>>

\* Captured outputs for the single-template sessions: nothing, one record
\* that validates, one that does not, both, and one without the parameter.
TemplateLogs ==
    {<<>>, <<OutX>>, <<OutY>>, <<OutX, OutBlank, OutY>>, <<OutOther>>}

\* The template instantiator with one template bound to the resource job,
\* in lenient and in strict template expansion.
InitTpl ==
    \E flags \in {{}, {FLAG_FEATURE_STRICT_TEMPLATE_EXPANSION}},
       template_id \in {"t1", "t2"} :
        InitSessionUnits(JobIds, flags, SingleTemplateUnits(template_id))

NextTpl ==
    \E outcome \in {OUTCOME_NONE, OUTCOME_PASS, OUTCOME_FAIL},
       io_log \in TemplateLogs, fake_resources \in BOOLEAN :
        ObserveResult("R", Result(outcome, io_log), fake_resources)

SpecTpl == InitTpl /\ [][NextTpl]_vars

\* ------------------------------------------------------------------------
\* Properties
\* ------------------------------------------------------------------------
Inhibitors(id) == get_inhibitor_list(SessionState, Job(id))

CurrentOutcome(id) == job_state_map[id].result.outcome

\* A job that declares no hard, after or salvage dependency and no
\* requirement expression.
DeclaresNothing(id) ==
    /\ get_direct_dependencies(Job(id)) = {}
    /\ get_after_dependencies(Job(id)) = {}
    /\ get_salvage_dependencies(Job(id)) = {}
    /\ get_resource_program(Job(id)) = <<>>

IsDesired(id) ==
    UndesiredJobReadinessInhibitor \notin
        Range(job_state_map[id].readiness_inhibitor_list)

\* The desired jobs linked to a checkpoint (by flag or sibling) that have
\* not run yet.
PendingLinked(checkpoint) ==
    {id \in JobIds :
        /\ IsDesired(id)
        /\ _is_job_impacting_suspend(checkpoint, Job(id))
        /\ CurrentOutcome(id) = OUTCOME_NONE}

\* The pairs (a, b) of active jobs with a declaring `before: b`.
BeforePairs ==
    {p \in JobIds \X JobIds : p[2] \in get_before_dependencies(JobDef(p[1]))}

\* C1: for every job J and hard dependency D of J: D at outcome NONE gives
\* a PENDING_DEP inhibitor related to D; D at an outcome other than NONE
\* and PASS gives a FAILED_DEP inhibitor related to D; D at PASS gets no
\* inhibitor from the hard-dependency step.
C1_HardDependencyInhibitors ==
    \A j \in JobIds : \A d \in get_direct_dependencies(Job(j)) :
        /\ CurrentOutcome(d) = OUTCOME_NONE =>
               JobReadinessInhibitor(PENDING_DEP, d, None)
                   \in Range(Inhibitors(j))
        /\ CurrentOutcome(d) \notin {OUTCOME_NONE, OUTCOME_PASS} =>
               JobReadinessInhibitor(FAILED_DEP, d, None)
                   \in Range(Inhibitors(j))
        /\ CurrentOutcome(d) = OUTCOME_PASS =>
               /\ \A i \in 1..Len(DirectInhibitors(SessionState, Job(j))) :
                      DirectInhibitors(SessionState, Job(j))[i].related_job # d
               /\ JobReadinessInhibitor(FAILED_DEP, d, None)
                      \notin Range(Inhibitors(j))

\* A dependency that crashed inhibits its dependent with FAILED_DEP.
C1_Witness ==
    /\ CurrentOutcome("A") = OUTCOME_CRASH
    /\ JobReadinessInhibitor(FAILED_DEP, "A", None) \in Range(Inhibitors("J"))

C4_Original ==
    \A p \in BeforePairs :
        (p[1] \in before_references[p[2]]
         /\ IsDesired(p[1]) /\ IsDesired(p[2])
         /\ CurrentOutcome(p[1]) = OUTCOME_NONE) =>
            JobReadinessInhibitor(PENDING_DEP, p[1], None)
                \in Range(Inhibitors(p[2]))

\* The resource ids mentioned by the requirement program of a job, each
\* with the expression mentioning it.
Requirements(id) ==
    UNION {{<<r, Job(id).requires[i]>> :
               r \in Range(Job(id).requires[i].resource_id_list)} :
           i \in 1..Len(Job(id).requires)}

\* C5: a job whose requirement mentions resource r carries PENDING_RESOURCE
\* (related to r's job and to the expression) while r's job is at NONE and
\* the resource map has no data for r; once r's job ran and stored records
\* making the expression false, it carries FAILED_RESOURCE for r and no
\* PENDING_RESOURCE.
C5_ResourceInhibitors ==
    \A j \in JobIds : \A q \in Requirements(j) :
        LET r == q[1]
            expression == q[2]
        IN  /\ (CurrentOutcome(r) = OUTCOME_NONE
                /\ r \notin DOMAIN resource_map) =>
                   JobReadinessInhibitor(PENDING_RESOURCE, r, expression.text)
                       \in Range(Inhibitors(j))
            /\ (CurrentOutcome(r) # OUTCOME_NONE
                /\ r \in DOMAIN resource_map
                /\ ~ExpressionTrue(expression, resource_map)) =>
                   /\ JobReadinessInhibitor(FAILED_RESOURCE, r,
                                            expression.text)
                          \in Range(Inhibitors(j))
                   /\ \A i \in 1..Len(Inhibitors(j)) :
                          Inhibitors(j)[i].cause # PENDING_RESOURCE

\* The resource job ran and stored a record with attr = y.
C5_Witness ==
    /\ CurrentOutcome("R") = OUTCOME_PASS
    /\ "R" \in DOMAIN resource_map
    /\ resource_map["R"] = <<{<<"attr", "y">>}>>
    /\ JobReadinessInhibitor(FAILED_RESOURCE, "R", ExprRx.text)
           \in Range(Inhibitors("J"))

ResourceJobIds == {id \in JobIds : JobDef(id).plugin = "resource"}

\* The step is the call observe_result(session_state, Job(id), result, _),
\* result being the one the step leaves stored for the job.
Observes(id, result) ==
    /\ result = job_state_map'[id].result
    /\ \E fake \in BOOLEAN : ObserveResult(id, result, fake)

\* C6: observing a result with outcome NONE for a resource job leaves the
\* resource map as it was and adds no unit.
C6_NoneResultKeepsResources ==
    [][\A id \in ResourceJobIds :
          \A result \in {job_state_map'[id].result} :
              (result.outcome = OUTCOME_NONE /\ Observes(id, result)) =>
                  /\ resource_map' = resource_map
                  /\ unit_list' = unit_list
      ]_vars

\* Records stored by an earlier result are still there after a result
\* with outcome NONE that carries other output.
C6_Witness ==
    /\ observed = 2
    /\ CurrentOutcome("R") = OUTCOME_NONE
    /\ job_state_map["R"].result.io_log = <<OutY>>
    /\ "R" \in DOMAIN resource_map
    /\ resource_map["R"] = <<{<<"attr", "x">>}>>

\* C7: observing a result with outcome NONE for a resource job never ends
\* with an exception.
C7_Original ==
    \A id \in ResourceJobIds :
        CurrentOutcome(id) = OUTCOME_NONE => raised = None

\* What the core stores for a parsed record list.
StoredFor(parsed) == IF parsed = <<>> THEN <<EmptyResource>> ELSE parsed

\* C8 as stated: after two successive results with an outcome other than
\* NONE, resource_map[job.id] is the record list parsed from the second.
C8_Original ==
    [][\A id \in ResourceJobIds :
          \A result \in {job_state_map'[id].result} :
              (CurrentOutcome(id) # OUTCOME_NONE
               /\ result.outcome # OUTCOME_NONE
               /\ Observes(id, result)) =>
                  resource_map'[id] =
                      gen_rfc822_records_from_io_log(Job(id), result)
      ]_vars

\* C8 as amended: after two successive results with an outcome other than
\* NONE, resource_map[job.id] is the record list parsed from the second,
\* or the single empty record when that list is empty.
C8_WholesaleReplacement ==
    [][\A id \in ResourceJobIds :
          \A result \in {job_state_map'[id].result} :
              (CurrentOutcome(id) # OUTCOME_NONE
               /\ result.outcome # OUTCOME_NONE
               /\ Observes(id, result)) =>
                  resource_map'[id] =
                      StoredFor(gen_rfc822_records_from_io_log(Job(id),
                                                               result))
      ]_vars

\* A unit generated from the first result's record x is in the session,
\* and the second result's record y alone is in the resource map.
C8_Witness ==
    /\ observed = 2
    /\ \E i \in 1..Len(unit_list) : unit_list[i].value = "x"
    /\ "R" \in DOMAIN resource_map
    /\ resource_map["R"] = <<{<<"attr", "y">>}>>

\* C9: every list stored in the resource map is non-empty, and a result
\* with an outcome other than NONE that parses to no record is stored as
\* the list holding one empty record.
C9_StoredListsNonEmpty ==
    \A id \in DOMAIN resource_map :
        /\ Len(resource_map[id]) >= 1
        /\ (CurrentOutcome(id) # OUTCOME_NONE
            /\ gen_rfc822_records_from_io_log(Job(id),
                                              job_state_map[id].result) = <<>>)
               => resource_map[id] = <<EmptyResource>>

\* A resource job that printed on stderr only has the single empty record.
C9_Witness ==
    /\ CurrentOutcome("R") = OUTCOME_PASS
    /\ job_state_map["R"].result.io_log = <<ErrX>>
    /\ "R" \in DOMAIN resource_map
    /\ resource_map["R"] = <<EmptyResource>>

\* C10: an observe_result call that leaves the single empty record as the
\* resource list of the job adds no unit: templates are expanded only when
\* the stored list is something else.
C10_NoExpansionOnSentinel ==
    [][\A id \in ResourceJobIds :
          \A result \in {job_state_map'[id].result} :
              (/\ id \in DOMAIN resource_map'
               /\ resource_map'[id] = <<EmptyResource>>
               /\ Observes(id, result)) =>
                  unit_list' = unit_list
      ]_vars

\* Units were generated by an earlier result; the latest one parsed to no
\* record and added none.
C10_Witness ==
    /\ observed = 2
    /\ CurrentOutcome("R") # OUTCOME_NONE
    /\ "R" \in DOMAIN resource_map
    /\ resource_map["R"] = <<EmptyResource>>
    /\ Len(unit_list) = Len(InitialUnits) + 2

\* ------------------------------------------------------------------------
\* Template expansion
\* ------------------------------------------------------------------------
\* observe_result(id, result, fake_resources) is the step being taken.
ObservesWith(id, result, fake_resources) ==
    /\ result = job_state_map'[id].result
    /\ ObserveResult(id, result, fake_resources)

\* The templates of a unit list that are bound to resource id.
BoundTemplates(units, id) ==
    SelectSeq(units, LAMBDA unit :
        unit.kind = "template" /\ unit.resource_id = id)

\* The candidates the templates bound to id yield for the stored records.
CandidatesOf(units, records, id, fake_resources) ==
    Flatten([i \in 1..Len(BoundTemplates(units, id)) |->
                instantiate_all(BoundTemplates(units, id)[i], records,
                                fake_resources)])

\* A candidate validates: no missing parameter, no error-severity finding.
Validates(unit) ==
    /\ check(unit).raises = None
    /\ "error" \notin Range(check(unit).findings)

StrictExpansion == FLAG_FEATURE_STRICT_TEMPLATE_EXPANSION \in metadata_flags

\* The units a step appended to unit_list.
AddedUnits == SubSeq(unit_list', Len(unit_list) + 1, Len(unit_list'))

\* C11: with one template bound to the resource job, observing a result
\* (outcome not NONE) whose output parses to n >= 1 records adds exactly n
\* units in strict template expansion, and exactly n - k units in lenient
\* expansion, k being the number of candidates that do not validate (so n
\* when all validate).
C11_UnitsPerRecord ==
    [][\A id \in ResourceJobIds, fake_resources \in BOOLEAN :
         \A result \in {job_state_map'[id].result} :
            LET records == gen_rfc822_records_from_io_log(Job(id), result)
                n == Len(records)
                cands == CandidatesOf(unit_list, records, id, fake_resources)
                k == Cardinality({i \in 1..Len(cands) :
                                     ~Validates(cands[i])})
            IN  ( /\ result.outcome # OUTCOME_NONE
                  /\ Len(BoundTemplates(unit_list, id)) = 1
                  /\ n >= 1
                  /\ ObservesWith(id, result, fake_resources) ) =>
                    /\ Len(unit_list') >= Len(unit_list)
                    /\ SubSeq(unit_list', 1, Len(unit_list)) = unit_list
                    /\ Len(AddedUnits) =
                           IF StrictExpansion THEN n ELSE n - k
      ]_vars

\* Lenient session whose only template yields an error for value y: two
\* records were stored and one unit was added by one call.
C11_Witness ==
    /\ ~StrictExpansion
    /\ observed = 1
    /\ "R" \in DOMAIN resource_map
    /\ Len(resource_map["R"]) = 2
    /\ Len(unit_list) = Len(SingleTemplateUnits("t1")) + 1
    /\ unit_list[Len(unit_list) - 1] = TemplateUnit("t3", "R2")

\* The errors of a candidate: the missing parameter, or its error-severity
\* findings.
ErrorsOf(unit) ==
    IF check(unit).raises = "MissingParam" THEN <<"MissingParam">>
    ELSE SelectSeq(check(unit).findings, LAMBDA c : c = "error")

\* An instantiation pass runs for the step: the outcome is not NONE and the
\* list stored by the step is not the single empty record.
ExpandsTemplates(id, result) ==
    /\ result.outcome # OUTCOME_NONE
    /\ id \in DOMAIN resource_map'
    /\ resource_map'[id] # <<EmptyResource>>

\* C12: in strict template expansion every generated candidate is
\* inserted, in order: one that raises a missing-parameter error or has an
\* error-severity finding as an invalid-job placeholder with the same id
\* and its errors, one with warnings only or no finding unchanged.
C12_StrictKeepsEveryCandidate ==
    [][\A id \in ResourceJobIds, fake_resources \in BOOLEAN :
         \A result \in {job_state_map'[id].result} :
            ( /\ StrictExpansion
              /\ ExpandsTemplates(id, result)
              /\ ObservesWith(id, result, fake_resources) ) =>
                LET cands == CandidatesOf(unit_list, resource_map'[id], id,
                                          fake_resources)
                IN  /\ SubSeq(unit_list', 1, Len(unit_list)) = unit_list
                    /\ Len(AddedUnits) = Len(cands)
                    /\ \A i \in 1..Len(cands) :
                          IF Validates(cands[i])
                          THEN AddedUnits[i] = [cands[i] EXCEPT !.via = id]
                          ELSE /\ AddedUnits[i].kind = "invalid job"
                               /\ AddedUnits[i].id = cands[i].id
                               /\ AddedUnits[i].errors = ErrorsOf(cands[i])
                               /\ AddedUnits[i].errors # <<>>
      ]_vars

\* Strict session holding a placeholder for a candidate with an error, one
\* for a candidate with a missing parameter, and an unchanged job for a
\* candidate with a warning only.
C12_Witness ==
    /\ StrictExpansion
    /\ \E i, j, k \in 1..Len(unit_list) :
          /\ unit_list[i].kind = "invalid job"
          /\ unit_list[i].id = "t1-y"
          /\ unit_list[i].errors = <<"error">>
          /\ unit_list[j].kind = "job"
          /\ unit_list[j].id = "t2-y"
          /\ unit_list[k].kind = "invalid job"
          /\ unit_list[k].errors = <<"MissingParam">>

\* C13: in lenient template expansion the units inserted by a call are,
\* in order, exactly the candidates that raise no missing-parameter error
\* and have no error-severity finding (warnings do not exclude), and none
\* of them is a placeholder.
C13_LenientDropsInvalid ==
    [][\A id \in ResourceJobIds, fake_resources \in BOOLEAN :
         \A result \in {job_state_map'[id].result} :
            ( /\ ~StrictExpansion
              /\ ExpandsTemplates(id, result)
              /\ ObservesWith(id, result, fake_resources) ) =>
                LET cands == CandidatesOf(unit_list, resource_map'[id], id,
                                          fake_resources)
                    valid == SelectSeq(cands, Validates)
                IN  /\ SubSeq(unit_list', 1, Len(unit_list)) = unit_list
                    /\ AddedUnits =
                           [i \in 1..Len(valid) |->
                               [valid[i] EXCEPT !.via = id]]
                    /\ \A i \in 1..Len(AddedUnits) :
                          AddedUnits[i].kind # "invalid job"
      ]_vars

\* Lenient session where a record with value y is stored: the candidate of
\* t2 (a warning) was inserted, the candidate of t1 (an error) was not.
C13_Witness ==
    /\ ~StrictExpansion
    /\ "R" \in DOMAIN resource_map
    /\ resource_map["R"] = <<Resource({<<"attr", "y">>})>>
    /\ \E i \in 1..Len(unit_list) :
          unit_list[i].id = "t2-y" /\ unit_list[i].kind = "job"
    /\ \A i \in 1..Len(unit_list) :
          unit_list[i].id # "t1-y" /\ unit_list[i].kind # "invalid job"

\* ------------------------------------------------------------------------
\* Ordering inside one observe_result call
\* ------------------------------------------------------------------------
\* The inhibitor list a readiness evaluation gives for id in a state.
EvaluatedIn(session_state, id) ==
    IF id \in session_state.desired_job_list
    THEN get_inhibitor_list(session_state, Job(id))
    ELSE <<UndesiredJobReadinessInhibitor>>

C15_OneRecomputeAfterInsertions ==
    [][\A id \in ResourceJobIds :
         \A result \in {job_state_map'[id].result} :
            (ExpandsTemplates(id, result) /\ Observes(id, result)) =>
                recompute_log' = <<Len(unit_list')>>
      ]_vars

\* A pass that inserted two units after one call, and recomputed once.
C15_Witness ==
    /\ observed = 1
    /\ Len(unit_list) = Len(InitialUnits) + 2
    /\ recompute_log = <<Len(unit_list)>>

\* A pass that inserted no unit (both candidates lack the parameter, in
\* lenient expansion), and recomputed once.
C15_WitnessNoUnit ==
    /\ observed = 1
    /\ "R" \in DOMAIN resource_map
    /\ resource_map["R"] = <<Resource({<<"other", "z">>})>>
    /\ unit_list = InitialUnits
    /\ recompute_log = <<Len(unit_list)>>

\* ------------------------------------------------------------------------
\* Result replacement
\* ------------------------------------------------------------------------
\* C16: in every state in which a result can be observed, and for every
\* job and result, observe_result leaves exactly that result stored for
\* the job, whatever the stored and the new outcome are, and leaves the
\* result of every other job as it was (fake_resources is tried with both
\* values where it is read, on a resource job).
C16_ResultReplaced ==
    \A id \in IF observed < MaxObserve THEN JobIds ELSE {} :
        \A outcome \in Outcomes, io_log \in LogsOf(id),
           fake_resources \in IF JobDef(id).plugin = "resource"
                               THEN BOOLEAN ELSE {FALSE} :
            \A after \in {observe_result(SessionState, Job(id),
                                         Result(outcome, io_log),
                                         fake_resources)} :
                /\ after.job_state_map[id].result = Result(outcome, io_log)
                /\ \A other \in JobIds \ {id} :
                      after.job_state_map[other].result
                      = job_state_map[other].result

\* A result of outcome NONE stored over an earlier result of the resource
\* job that had produced records.
C16_Witness ==
    /\ observed = 2
    /\ job_state_map["R"].result = Result(OUTCOME_NONE, <<OutX>>)
    /\ "R" \in DOMAIN resource_map
    /\ resource_map["R"] = <<Resource({<<"attr", "y">>})>>

\* ------------------------------------------------------------------------
\* Suspend checkpoints
\* ------------------------------------------------------------------------
SuspendJobIds == {AUTO_JOB_ID, MANUAL_JOB_ID}

\* The desired jobs linked to a checkpoint, as _is_job_impacting_suspend
\* decides it (flag test or sibling depending on the checkpoint).
LinkedDesired(checkpoint) ==
    {id \in JobIds :
        IsDesired(id) /\ _is_job_impacting_suspend(checkpoint, Job(id))}

CarriesFlagOf(checkpoint, x) ==
    (IF checkpoint = AUTO_JOB_ID THEN AUTO_FLAG ELSE MANUAL_FLAG)
        \in Range(JobDef(x).flags)

\* x declares a sibling whose depends names the checkpoint.
SiblingDependsOn(checkpoint, x) ==
    \E i \in 1..Len(JobDef(x).siblings) :
        checkpoint \in Range(JobDef(x).siblings[i].depends)

\* C18 as stated: the dependency set of a job has an AFTER edge to a job x
\* it does not declare as a dependency iff the job is a checkpoint and x
\* carries the flag of that same checkpoint or declares a sibling
\* depending on it; a job flagged for the other checkpoint gets no edge.
C18_Original ==
    \A j \in JobIds :
        \A x \in JobIds \ (get_direct_dependencies(Job(j))
                             \cup get_after_dependencies(Job(j))) :
            <<AFTER, x>> \in get_dependency_set(Job(j), job_list)
            <=> ( /\ j \in SuspendJobIds
                  /\ (CarriesFlagOf(j, x) \/ SiblingDependsOn(j, x)) )

\* ------------------------------------------------------------------------
\* After and salvage dependencies
\* ------------------------------------------------------------------------
\* The inhibitors of job j that relate to job d.
RelatedTo(j, d) == {inh \in Range(Inhibitors(j)) : inh.related_job = d}

\* C19: an after dependency D of J that J names in no other way gets an
\* inhibitor iff D is at outcome NONE, and it is a PENDING_DEP related to
\* D; at every other outcome, FAIL and CRASH included, J has no inhibitor
\* related to D.
C19_AfterInhibitsOnlyWhilePending ==
    \A j \in JobIds \ SuspendJobIds :
        \A d \in get_after_dependencies(Job(j))
                  \ (get_direct_dependencies(Job(j))
                      \cup get_salvage_dependencies(Job(j))
                      \cup get_resource_dependencies(Job(j))) :
            RelatedTo(j, d) =
                IF CurrentOutcome(d) = OUTCOME_NONE
                THEN {JobReadinessInhibitor(PENDING_DEP, d, None)}
                ELSE {}

\* B, an after dependency of J, has crashed and J has no inhibitor
\* related to B.
C19_Witness ==
    /\ "B" \in get_after_dependencies(Job("J"))
    /\ CurrentOutcome("B") = OUTCOME_CRASH
    /\ RelatedTo("J", "B") = {}

\* C20: a salvage dependency D of J gets a NOT_FAILED_DEP inhibitor
\* related to D iff D's outcome is not FAIL (NONE, PASS, CRASH, SKIP and
\* NOT_SUPPORTED included); while D is at NONE the inhibitor is
\* NOT_FAILED_DEP and not PENDING_DEP; J has an empty inhibitor list only
\* when D is at outcome FAIL.
C20_SalvageInhibitsUnlessFailed ==
    \A j \in JobIds : \A d \in get_salvage_dependencies(Job(j)) :
        /\ JobReadinessInhibitor(NOT_FAILED_DEP, d, None)
               \in Range(Inhibitors(j))
           <=> CurrentOutcome(d) # OUTCOME_FAIL
        /\ d \notin (get_direct_dependencies(Job(j))
                       \cup get_after_dependencies(Job(j))) =>
              JobReadinessInhibitor(PENDING_DEP, d, None)
                  \notin Range(Inhibitors(j))
        /\ Inhibitors(j) = <<>> => CurrentOutcome(d) = OUTCOME_FAIL

\* R, a salvage dependency of J, has been observed with outcome FAIL and
\* J carries no NOT_FAILED_DEP inhibitor; A, which J depends on, is still
\* pending.
C20_Witness ==
    /\ "R" \in get_salvage_dependencies(Job("J"))
    /\ CurrentOutcome("R") = OUTCOME_FAIL
    /\ \A inh \in Range(Inhibitors("J")) : inh.cause # NOT_FAILED_DEP
    /\ JobReadinessInhibitor(PENDING_DEP, "A", None) \in Range(Inhibitors("J"))

\* ------------------------------------------------------------------------
\* get_inhibitor_list on its own
\* ------------------------------------------------------------------------
\* The ids get_inhibitor_list subscripts job_state_map with: the resource
\* ids of the expression that could not be evaluated or was false, and
\* the hard, after and salvage dependencies.
JobStateLookups(session_state, job) ==
    LET prog == get_resource_program(job)
        res == evaluate_or_raise(prog, session_state.resource_map)
    IN  (IF prog = <<>> \/ res.kind = "ok" THEN {}
         ELSE Range(res.expression.resource_id_list))
        \cup get_direct_dependencies(job)
        \cup get_after_dependencies(job)
        \cup get_salvage_dependencies(job)

\* A call of get_inhibitor_list: the exception it ends with, or the list
\* it returns.
get_inhibitor_list_call(session_state, job) ==
    IF JobStateLookups(session_state, job)
           \subseteq DOMAIN session_state.job_state_map
    THEN [raised |-> None,
          inhibitors |-> get_inhibitor_list(session_state, job)]
    ELSE [raised |-> "KeyError", inhibitors |-> <<>>]

\* Outcomes, stored resources and job maps of the sessions get_inhibitor_list
\* is applied to.
InhibitorOutcomes == {OUTCOME_NONE, OUTCOME_PASS, OUTCOME_FAIL}

ResourceLists ==
    {<<Resource({<<"attr", "x">>})>>, <<Resource({<<"attr", "y">>})>>}

ResourceMaps == UNION {[S -> ResourceLists] : S \in SUBSET {"R", "R2"}}

JobMaps ==
    {InhibitorJobIds, InhibitorJobIds \ {"R2"}, InhibitorJobIds \ {"D"}}

\* A session of the second catalog in any combination of job map, outcomes
\* and stored resources, before readiness is computed.
InitInh ==
    \E ids \in JobMaps, rmap \in ResourceMaps,
       outcomes \in [{"R", "R2", "D"} -> InhibitorOutcomes] :
        /\ job_state_map =
               [id \in ids |->
                   [result |->
                        Result(IF id = "K" THEN OUTCOME_NONE
                               ELSE outcomes[id], <<>>),
                    readiness_inhibitor_list |->
                        <<UndesiredJobReadinessInhibitor>>]]
        /\ resource_map = rmap
        /\ unit_list = <<>>
        /\ before_references = [id \in InhibitorJobIds |-> {}]
        /\ desired_job_list = ids
        /\ metadata_flags = {}
        /\ observed = 0
        /\ raised = None
        /\ recompute_log = <<>>
        /\ launcher = None
        /\ cpuid_call = None
        /\ provider = "base"
        /\ query = None
        /\ job_state_order =
               SelectSeq(<<"R", "R2", "D", "K">>, LAMBDA id : id \in ids)

\* job_state.readiness_inhibitor_list = get_inhibitor_list(session, job)
GetInhibitorList(id) ==
    /\ id \in DOMAIN job_state_map
    /\ \E call \in {get_inhibitor_list_call(SessionState, Job(id))} :
           /\ raised' = call.raised
           /\ job_state_map' =
                  IF call.raised = None
                  THEN [job_state_map EXCEPT
                           ![id].readiness_inhibitor_list = call.inhibitors]
                  ELSE job_state_map
    /\ UNCHANGED <<resource_map, unit_list, before_references,
                   desired_job_list, metadata_flags, observed,
                   recompute_log, launcher, cpuid_call,
                   job_state_order, query, provider>>

NextInh == \E id \in InhibitorJobIds : GetInhibitorList(id)

SpecInh == InitInh /\ [][NextInh]_vars

\* The requirement expression of job id is false on the stored resources.
EvaluationFailed(id) ==
    /\ get_resource_program(Job(id)) # <<>>
    /\ evaluate_or_raise(get_resource_program(Job(id)), resource_map).kind
           = "ExpressionFailedError"

\* The requirement expression of job id cannot be evaluated.
CannotEvaluate(id) ==
    /\ get_resource_program(Job(id)) # <<>>
    /\ evaluate_or_raise(get_resource_program(Job(id)), resource_map).kind
           = "ExpressionCannotEvaluateError"

\* The expression evaluate_or_raise stopped at.
RaisedExpression(id) ==
    evaluate_or_raise(get_resource_program(Job(id)), resource_map).expression

CallOf(id) == get_inhibitor_list_call(SessionState, Job(id))

\* Number of inhibitors of a list with the given cause and related job.
CountOf(inhibitors, cause, related_job) ==
    Cardinality({i \in 1..Len(inhibitors) :
                    /\ inhibitors[i].cause = cause
                    /\ inhibitors[i].related_job = related_job})

\* C21: when the requirement expression of a job is false, the list
\* get_inhibitor_list returns holds exactly one FAILED_RESOURCE inhibitor
\* for every resource id the expression mentions, whatever record made it
\* false and whatever the outcomes of the resource jobs, and holds no
\* PENDING_RESOURCE inhibitor.
C21_FailedResourceForEveryId ==
    \A j \in DOMAIN job_state_map :
        (EvaluationFailed(j) /\ CallOf(j).raised = None) =>
            /\ \A r \in Range(RaisedExpression(j).resource_id_list) :
                   /\ CountOf(CallOf(j).inhibitors, FAILED_RESOURCE, r) = 1
                   /\ JobReadinessInhibitor(FAILED_RESOURCE, r,
                                            RaisedExpression(j).text)
                          \in Range(CallOf(j).inhibitors)
            /\ \A i \in 1..Len(CallOf(j).inhibitors) :
                   /\ CallOf(j).inhibitors[i].cause # PENDING_RESOURCE
                   /\ CallOf(j).inhibitors[i].cause = FAILED_RESOURCE =>
                          CallOf(j).inhibitors[i].related_job
                              \in Range(RaisedExpression(j).resource_id_list)

\* R's record satisfies its comparison and R passed, R2's record falsifies
\* the expression: K's computed list blames both.
C21_Witness ==
    /\ DOMAIN job_state_map = InhibitorJobIds
    /\ resource_map = ("R" :> <<Resource({<<"attr", "x">>})>>)
                      @@ ("R2" :> <<Resource({<<"attr", "y">>})>>)
    /\ CurrentOutcome("R") = OUTCOME_PASS
    /\ CurrentOutcome("D") = OUTCOME_PASS
    /\ job_state_map["K"].readiness_inhibitor_list =
           <<JobReadinessInhibitor(FAILED_RESOURCE, "R", ExprRR2.text),
             JobReadinessInhibitor(FAILED_RESOURCE, "R2", ExprRR2.text)>>

\* C22: when the requirement expression of a job cannot be evaluated, a
\* resource id it mentions yields a PENDING_RESOURCE inhibitor exactly when
\* the outcome of its job is not PASS, and no FAILED_RESOURCE inhibitor;
\* when every mentioned resource job has passed the requirement step gives
\* nothing, and the list is empty if nothing else inhibits the job.
C22_PendingUnlessPassed ==
    \A j \in DOMAIN job_state_map :
        (CannotEvaluate(j) /\ CallOf(j).raised = None) =>
            LET ids == Range(RaisedExpression(j).resource_id_list)
                step == ResourceInhibitors(SessionState, Job(j))
            IN  /\ \A r \in ids :
                       /\ CurrentOutcome(r) # OUTCOME_PASS <=>
                              JobReadinessInhibitor(PENDING_RESOURCE, r,
                                  RaisedExpression(j).text)
                                  \in Range(CallOf(j).inhibitors)
                       /\ CountOf(CallOf(j).inhibitors, PENDING_RESOURCE, r)
                              = IF CurrentOutcome(r) # OUTCOME_PASS
                                THEN 1 ELSE 0
                       /\ CountOf(CallOf(j).inhibitors, FAILED_RESOURCE, r)
                              = 0
                /\ (\A r \in ids : CurrentOutcome(r) = OUTCOME_PASS) =>
                       /\ step = <<>>
                       /\ (\A d \in get_direct_dependencies(Job(j)) :
                               CurrentOutcome(d) = OUTCOME_PASS) =>
                              CallOf(j).inhibitors = <<>>

\* Both resource jobs passed, nothing is stored for R2 and D passed: K's
\* computed list is empty although its requirement was never evaluated.
C22_Witness ==
    /\ DOMAIN job_state_map = InhibitorJobIds
    /\ "R2" \notin DOMAIN resource_map
    /\ CurrentOutcome("R") = OUTCOME_PASS
    /\ CurrentOutcome("R2") = OUTCOME_PASS
    /\ CurrentOutcome("D") = OUTCOME_PASS
    /\ CannotEvaluate("K")
    /\ job_state_map["K"].readiness_inhibitor_list = <<>>

\* C23: add_before_deps(job, job_map, global_job_map) adds job.id to the
\* before_references of each id of job's before list found in both maps
\* and changes nothing else: an id missing from the global catalog, or in
\* the catalog but not in the active job map, gets no reference; a second
\* run of the pass leaves every before_references set as it is.
C23_LinkerFrameAndIdempotence ==
    [][\A id \in LinkingJobIds :
          AddBeforeDeps(id) =>
              /\ DOMAIN before_references' = DOMAIN before_references
              /\ \A b \in DOMAIN before_references :
                     before_references'[b] =
                         IF /\ b \in get_before_dependencies(JobDef(id))
                            /\ b \in GlobalJobIds
                            /\ b \in JobIds
                         THEN before_references[b] \cup {id}
                         ELSE before_references[b]
              /\ UNCHANGED <<job_state_map, resource_map, unit_list,
                             desired_job_list, metadata_flags, raised>>
              /\ add_before_deps(before_references', JobDef(id), JobIds,
                                 GlobalJobIds) = before_references'
      ]_vars

\* A (before: B, X, ghost) has been linked: B refers back to A, X, which
\* is in the catalog but not in the plan, does not.
C23_Witness ==
    /\ before_references["B"] = {"A"}
    /\ before_references["X"] = {}
    /\ "ghost" \notin DOMAIN before_references
    /\ \A b \in JobIds \ {"B"} : before_references[b] = {}

\* The job of an id with its requires field replaced by a text the
\* resource program parser rejects.
WithMalformedRequires(id) == [Job(id) EXCEPT !.requires = <<ExprBad>>]

\* C24: for a job whose requires field raises a resource program error,
\* get_dependency_set returns a set with no RESOURCE edge that still holds
\* the DEPENDS edge of every hard dependency, the AFTER edge of every after
\* dependency and of every job linked to the job when it is a checkpoint,
\* and the BEFORE edge of every before reference.
C24_MalformedRequiresKeepsOtherEdges ==
    \A j \in JobIds :
        LET job == WithMalformedRequires(j)
            edges == get_dependency_set(job, job_list)
        IN  /\ \A e \in edges : e[1] # RESOURCE
            /\ \A d \in JobDef(j).depends : <<DEPENDS, d>> \in edges
            /\ \A d \in JobDef(j).after : <<AFTER, d>> \in edges
            /\ \A d \in before_references[j] : <<BEFORE, d>> \in edges
            /\ j \in {AUTO_JOB_ID, MANUAL_JOB_ID} =>
                   \A d \in JobIds :
                       _is_job_impacting_suspend(j, JobDef(d)) =>
                           <<AFTER, d>> \in edges

\* After linking, with an unparsable requires field: J keeps its hard and
\* after edges, B its back-reference, the manual checkpoint its linked
\* jobs.
C24_Witness ==
    /\ before_references["B"] = {"A"}
    /\ get_dependency_set(WithMalformedRequires("J"), job_list)
           = {<<DEPENDS, "A">>, <<AFTER, "B">>}
    /\ get_dependency_set(WithMalformedRequires("B"), job_list)
           = {<<BEFORE, "A">>}
    /\ get_dependency_set(WithMalformedRequires(MANUAL_JOB_ID), job_list)
           = {<<AFTER, "B">>, <<AFTER, "J">>}

RECURSIVE Paragraphs(_, _)
\* The paragraphs of a sequence of lines, i.e. its maximal runs of lines
\* that are not blank; cur is the run read so far.
Paragraphs(lines, cur) ==
    IF lines = <<>> THEN (IF cur = <<>> THEN <<>> ELSE <<cur>>)
    ELSE IF Head(lines).kind = "blank"
    THEN (IF cur = <<>> THEN <<>> ELSE <<cur>>)
         \o Paragraphs(Tail(lines), <<>>)
    ELSE Paragraphs(Tail(lines), Append(cur, Head(lines)))

\* The paragraphs printed on stdout by a result.
StdoutParagraphs(result) ==
    Paragraphs(SelectSeq(result.io_log, LAMBDA r : r.stream = "stdout"),
               <<>>)

\* A paragraph of "key: value" lines with no key repeated.
WellFormedParagraph(par) ==
    /\ \A i \in 1..Len(par) : par[i].kind = "kv"
    /\ \A i, k \in 1..Len(par) : par[i].key = par[k].key => i = k

RecordOfParagraph(par) ==
    Resource({<<par[i].key, par[i].value>> : i \in 1..Len(par)})

HasMalformedParagraph(result) ==
    \E i \in 1..Len(StdoutParagraphs(result)) :
        ~WellFormedParagraph(StdoutParagraphs(result)[i])

\* The records of every well-formed paragraph of a result, in order.
WellFormedRecords(result) ==
    LET pars == SelectSeq(StdoutParagraphs(result), WellFormedParagraph)
    IN  [i \in 1..Len(pars) |-> RecordOfParagraph(pars[i])]

\* The records of the paragraphs that precede the first malformed one.
PrecedingRecords(result) ==
    LET pars == StdoutParagraphs(result)
        first == CHOOSE i \in 1..Len(pars) :
                     /\ ~WellFormedParagraph(pars[i])
                     /\ \A k \in 1..(i - 1) : WellFormedParagraph(pars[k])
    IN  [i \in 1..(first - 1) |-> RecordOfParagraph(pars[i])]

\* C25 as stated: when the stdout of a resource job's result has a
\* malformed paragraph, every well-formed paragraph, before it and after
\* it, becomes a record of resource_map[job.id], and the call completes.
C25_Original ==
    [][\A id \in ResourceJobIds :
          \A result \in {job_state_map'[id].result} :
              (result.outcome # OUTCOME_NONE
               /\ HasMalformedParagraph(result)
               /\ Observes(id, result)) =>
                  /\ raised' = None
                  /\ resource_map'[id] = StoredFor(WellFormedRecords(result))
      ]_vars

\* C25 as amended: when the stdout of a resource job's result has a
\* malformed paragraph, the well-formed paragraphs that precede the first
\* malformed one become the records of resource_map[job.id] (the single
\* empty record when there is none); that paragraph and everything after
\* it, well-formed or not, is discarded, and the call completes.
C25_KeepsPrecedingParagraphs ==
    [][\A id \in ResourceJobIds :
          \A result \in {job_state_map'[id].result} :
              (result.outcome # OUTCOME_NONE
               /\ HasMalformedParagraph(result)
               /\ Observes(id, result)) =>
                  /\ raised' = None
                  /\ resource_map'[id] = StoredFor(PrecedingRecords(result))
      ]_vars

\* A result printing x, a malformed paragraph, then y was observed: x
\* alone is stored.
C25_Witness ==
    /\ CurrentOutcome("R") = OUTCOME_PASS
    /\ job_state_map["R"].result.io_log =
           <<OutX, OutBlank, OutBad, OutBlank, OutY>>
    /\ raised = None
    /\ resource_map["R"] = <<Resource({<<"attr", "x">>})>>

\* C26: get_inhibitor_list never raises: for every job and session state,
\* whether or not the resource ids of the requirement and the ids of the
\* dependency lists have an entry in the job map and the resource map, the
\* call returns a list.
C26_Original ==
    [][\A id \in InhibitorJobIds : GetInhibitorList(id) => raised' = None]_vars

\* C27: the checkpoint step looks at desired jobs only: a job whose stored
\* readiness list holds the UNDESIRED inhibitor never gives a PENDING_DEP
\* inhibitor to a checkpoint job, linked to it and at outcome NONE or not;
\* a desired job linked to the checkpoint gives one exactly when its
\* outcome is NONE.
C27_CheckpointIgnoresUndesired ==
    \A c \in SuspendJobIds : \A id \in JobIds :
        LET pending == JobReadinessInhibitor(PENDING_DEP, id, None)
            step == _get_suspend_inhibitor_list(SessionState, Job(c))
        IN  /\ ~IsDesired(id) =>
                   /\ CountOf(step, PENDING_DEP, id) = 0
                   /\ pending \notin Range(Inhibitors(c))
            /\ (IsDesired(id) /\ _is_job_impacting_suspend(c, Job(id))) =>
                   /\ CountOf(step, PENDING_DEP, id)
                          = IF CurrentOutcome(id) = OUTCOME_NONE
                            THEN 1 ELSE 0
                   /\ pending \in Range(Inhibitors(c)) <=>
                          CurrentOutcome(id) = OUTCOME_NONE

\* A carries the auto flag, was not selected and never ran; B is selected
\* and has not run, J is selected and passed: the auto checkpoint waits
\* for B alone, and so does the manual one.
C27_Witness ==
    /\ ~IsDesired("A") /\ CurrentOutcome("A") = OUTCOME_NONE
    /\ _is_job_impacting_suspend(AUTO_JOB_ID, Job("A"))
    /\ IsDesired("B") /\ CurrentOutcome("B") = OUTCOME_NONE
    /\ IsDesired("J") /\ CurrentOutcome("J") = OUTCOME_PASS
    /\ Inhibitors(AUTO_JOB_ID)
           = <<JobReadinessInhibitor(PENDING_DEP, "B", None)>>
    /\ Inhibitors(MANUAL_JOB_ID)
           = <<JobReadinessInhibitor(PENDING_DEP, "B", None)>>

\* ------------------------------------------------------------------------
\* Launcher (checkbox_ng.launcher.subcommands), as its unit tests call it
\* ------------------------------------------------------------------------
\* One unit test: the values its mocks return and the value (or exception)
\* it asserts.
LauncherTest(mocks, expected) == [mocks |-> mocks, expected |-> expected]

\* ctx.sa.get_summary(): the number of jobs per outcome.
mock_results(fail, crash, pass) ==
    [fail |-> fail, crash |-> crash, pass |-> pass]

\* The five cases of TestLauncherReturnCodes.
TestLauncherReturnCodes ==
    {LauncherTest(mock_results(0, 0, 1), 0),
     LauncherTest(mock_results(1, 0, 1), 1),
     LauncherTest(mock_results(0, 1, 1), 1),
     LauncherTest(mock_results(0, 0, 0), 0),
     LauncherTest(mock_results(6, 7, 8), 1)}

\* Launcher.invoked with a fail count that alone decides the exit code.
invoked_IgnoresCrash(results) == IF results.fail = 0 THEN 0 ELSE 1

\* The exit code of Launcher.invoked(ctx) for a session whose summary is
\* results.
invoked(results) ==
    IF results.fail = 0 /\ results.crash = 0 THEN 0 ELSE 1

\* A call of a Launcher method that has not been made yet.
Call(name, mocks) ==
    [call |-> name, mocks |-> mocks, done |-> FALSE, returned |-> None,
     raised |-> None, resume_session_called |-> FALSE]

\* The summaries tried: every combination of small counts, and those of
\* the unit tests.
Summaries ==
    {mock_results(f, c, p) : f, c, p \in 0..MaxCount}
    \cup {t.mocks : t \in TestLauncherReturnCodes}

InvokedCalls == {Call("invoked", results) : results \in Summaries}

\* self.launcher.invoked(self.ctx)
Invoked ==
    /\ launcher.call = "invoked"
    /\ ~launcher.done
    /\ launcher' = [launcher EXCEPT !.done = TRUE,
                                    !.returned = invoked(launcher.mocks)]
    /\ UNCHANGED <<job_state_map, resource_map, unit_list,
                   before_references, desired_job_list, metadata_flags,
                   observed, raised, recompute_log,
                   cpuid_call, job_state_order, query, provider>>

mock_job_state(flags, outcome) == [flags |-> flags, outcome |-> outcome]

\* The three cases of test__get_autoresume_outcome_last_job_*.
TestAutoresumeOutcome ==
    {LauncherTest(mock_job_state(<<"noreturn">>, OUTCOME_NONE), OUTCOME_PASS),
     LauncherTest(mock_job_state(<<>>, OUTCOME_NONE), OUTCOME_CRASH),
     LauncherTest(mock_job_state(<<>>, OUTCOME_PASS), OUTCOME_PASS)}

\* _get_autoresume_outcome_last_job looking at the noreturn flag before
\* the recorded outcome.
_get_autoresume_outcome_last_job_FlagFirst(job_state) ==
    IF "noreturn" \in Range(job_state.flags) THEN OUTCOME_PASS
    ELSE IF job_state.outcome # OUTCOME_NONE THEN job_state.outcome
    ELSE OUTCOME_CRASH

\* Launcher._get_autoresume_outcome_last_job(metadata)
_get_autoresume_outcome_last_job(job_state) ==
    IF job_state.outcome # OUTCOME_NONE THEN job_state.outcome
    ELSE IF "noreturn" \in Range(job_state.flags) THEN OUTCOME_PASS
    ELSE OUTCOME_CRASH

\* Launcher._resume_session(session_id, outcome, comments): the outcome of
\* the MemoryJobResult built for the job that was running; with no outcome
\* given it is the one _get_autoresume_outcome_last_job calculates.
_resume_session(autoresume_outcome, outcome) ==
    IF outcome = None THEN autoresume_outcome ELSE outcome

FlagChoices ==
    {<<>>, <<"noreturn">>, <<"preserve-locale">>,
     <<"preserve-locale", "noreturn">>}

ResumeCalls ==
    {Call("_resume_session", mock_job_state(flags, outcome)) :
        flags \in FlagChoices, outcome \in Outcomes}

\* Launcher._resume_session(self, "session_id", None, None)
ResumeSession ==
    /\ launcher.call = "_resume_session"
    /\ ~launcher.done
    /\ launcher' =
           [launcher EXCEPT
               !.done = TRUE,
               !.returned =
                   _resume_session(
                       _get_autoresume_outcome_last_job(launcher.mocks),
                       None)]
    /\ UNCHANGED <<job_state_map, resource_map, unit_list,
                   before_references, desired_job_list, metadata_flags,
                   observed, raised, recompute_log,
                   cpuid_call, job_state_order, query, provider>>

mock_metadata(incompatible, testplan_id, running_job_name, plugin) ==
    [incompatible |-> incompatible, testplan_id |-> testplan_id,
     running_job_name |-> running_job_name, plugin |-> plugin]

\* The metadata of the test__should_autoresume_last_run_* cases.
IncompatibleSession == mock_metadata(TRUE, None, None, None)
NoTestplan == mock_metadata(FALSE, None, None, None)
NoRunningJobName == mock_metadata(FALSE, "testplan_id", None, None)
ManualJob ==
    mock_metadata(FALSE, "testplan_id", "running_job_name", "user-interact")
ShellJob == mock_metadata(FALSE, "testplan_id", "running_job_name", "shell")

\* Launcher._should_autoresume_last_run(resume_candidates), metadata being
\* that of the most recent candidate.
_should_autoresume_last_run(resume_candidates, metadata) ==
    /\ resume_candidates # <<>>
    /\ ~metadata.incompatible
    /\ metadata.testplan_id # None
    /\ metadata.running_job_name # None
    /\ metadata.plugin # "user-interact"

\* ctx.args and the collaborators of _auto_resume_session.
mock_args(session_id, resume_candidates, clear_old_sessions, metadata) ==
    [session_id |-> session_id, resume_candidates |-> resume_candidates,
     clear_old_sessions |-> clear_old_sessions, metadata |-> metadata]

\* What a call of _auto_resume_session gives: the value returned or the
\* exception raised, and whether _resume_session was called.
CallResult(returned, raised_exception, resume_session_called) ==
    [returned |-> returned, raised |-> raised_exception,
     resume_session_called |-> resume_session_called]

\* The five cases of test__auto_resume_session_*; an attribute a test
\* leaves to MagicMock is truthy.
TestAutoResumeSession ==
    {LauncherTest(mock_args("session_to_resume", <<"session_to_resume">>,
                            TRUE, ShellJob),
                  CallResult(TRUE, None, TRUE)),
     LauncherTest(mock_args("session_to_resume", <<"some_other_session">>,
                            TRUE, ShellJob),
                  CallResult(None, "RuntimeError", FALSE)),
     LauncherTest(mock_args(None, <<"session_to_resume">>, FALSE, ShellJob),
                  CallResult(TRUE, None, TRUE)),
     LauncherTest(mock_args(None, <<"session_to_resume">>, TRUE, ShellJob),
                  CallResult(FALSE, None, FALSE)),
     LauncherTest(mock_args(None, <<"session_to_resume">>, TRUE, ManualJob),
                  CallResult(FALSE, None, FALSE))}

\* _auto_resume_session resuming the last run although --clear-old-sessions
\* was given.
_auto_resume_session_IgnoresClear(args) ==
    IF args.session_id # None
    THEN IF args.session_id \in Range(args.resume_candidates)
         THEN CallResult(TRUE, None, TRUE)
         ELSE CallResult(None, "RuntimeError", FALSE)
    ELSE IF _should_autoresume_last_run(args.resume_candidates,
                                        args.metadata)
    THEN CallResult(TRUE, None, TRUE)
    ELSE CallResult(FALSE, None, FALSE)

\* Launcher._auto_resume_session(resume_candidates)
_auto_resume_session(args) ==
    IF args.session_id # None
    THEN IF args.session_id \in Range(args.resume_candidates)
         THEN CallResult(TRUE, None, TRUE)
         ELSE CallResult(None, "RuntimeError", FALSE)
    ELSE IF /\ ~args.clear_old_sessions
            /\ _should_autoresume_last_run(args.resume_candidates,
                                           args.metadata)
    THEN CallResult(TRUE, None, TRUE)
    ELSE CallResult(FALSE, None, FALSE)

SessionIds == {None, "session_to_resume", "some_other_session"}

CandidateLists ==
    {<<>>, <<"session_to_resume">>, <<"some_other_session">>,
     <<"some_other_session", "session_to_resume">>}

Metadatas ==
    {IncompatibleSession, NoTestplan, NoRunningJobName, ManualJob, ShellJob}

AutoResumeCalls ==
    {Call("_auto_resume_session",
          mock_args(session_id, resume_candidates, clear_old_sessions,
                    metadata)) :
        session_id \in SessionIds, resume_candidates \in CandidateLists,
        clear_old_sessions \in BOOLEAN, metadata \in Metadatas}

\* Launcher._auto_resume_session(self, resume_candidates)
AutoResumeSession ==
    /\ launcher.call = "_auto_resume_session"
    /\ ~launcher.done
    /\ \E out \in {_auto_resume_session(launcher.mocks)} :
           launcher' =
               [launcher EXCEPT
                   !.done = TRUE, !.returned = out.returned,
                   !.raised = out.raised,
                   !.resume_session_called = out.resume_session_called]
    /\ UNCHANGED <<job_state_map, resource_map, unit_list,
                   before_references, desired_job_list, metadata_flags,
                   observed, raised, recompute_log,
                   cpuid_call, job_state_order, query, provider>>

\* The launcher about to make one call, every collaborator a mock: there
\* is no session.
InitLauncher ==
    /\ launcher \in InvokedCalls \cup ResumeCalls \cup AutoResumeCalls
    /\ cpuid_call = None
    /\ provider = "base"
    /\ query = None
    /\ job_state_order = <<>>
    /\ job_state_map = <<>>
    /\ resource_map = <<>>
    /\ unit_list = <<>>
    /\ before_references = <<>>
    /\ desired_job_list = {}
    /\ metadata_flags = {}
    /\ observed = 0
    /\ raised = None
    /\ recompute_log = <<>>

NextLauncher == Invoked \/ ResumeSession \/ AutoResumeSession

SpecLauncher == InitLauncher /\ [][NextLauncher]_vars

CPUIDS ==
    <<
       [key |-> "Amber Lake",
        values |-> <<<<"0", "x", "8", "0", "6", "e", "9">>>>],
       [key |-> "AMD EPYC",
        values |-> <<<<"0", "x", "8", "0", "0", "f", "1", "2">>>>],
       [key |-> "AMD Genoa",
        values |-> <<<<"0", "x", "a", "1", "0", "f", "1", "1">>>>],
       [key |-> "AMD Lisbon",
        values |-> <<<<"0", "x", "1", "0", "0", "f", "8", "1">>>>],
       [key |-> "AMD Magny-Cours",
        values |-> <<<<"0", "x", "1", "0", "0", "f", "9", "1">>>>],
       [key |-> "AMD Milan",
        values |-> <<<<"0", "x", "a", "0", "0", "f", "1", "1">>>>],
       [key |-> "AMD Milan-X",
        values |-> <<<<"0", "x", "a", "0", "0", "f", "1", "2">>>>],
       [key |-> "AMD ROME",
        values |-> <<<<"0", "x", "8", "3", "0", "f", "1", "0">>>>],
       [key |-> "AMD Ryzen",
        values |-> <<<<"0", "x", "8", "1", "0", "f", "8", "1">>>>],
       [key |-> "AMD Bergamo",
        values |-> <<<<"0", "x", "a", "a", "0", "f", "0", "1">>>>],
       [key |-> "AMD Siena SP6",
        values |-> <<<<"0", "x", "a", "a", "0", "f", "0", "2">>>>],
       [key |-> "AMD Raphael",
        values |-> <<<<"0", "x", "a", "6", "0", "f", "1", "2">>>>],
       [key |-> "AMD Turin",
        values |-> <<<<"0", "x", "b", "0", "0", "f", "2", "1">>,
                     <<"0", "x", "b", "1", "0", "f", "1", "0">>>>],
       [key |-> "AMD Grado",
        values |-> <<<<"0", "x", "b", "4", "0", "f", "4", "0">>>>],
       [key |-> "Broadwell",
        values |-> <<<<"0", "x", "4", "0", "6", "7">>,
                     <<"0", "x", "3", "0", "6", "d", "4">>,
                     <<"0", "x", "5", "0", "6", "6">>,
                     <<"0", "x", "4", "0", "6", "f">>>>],
       [key |-> "Canon Lake",
        values |-> <<<<"0", "x", "6", "0", "6", "6">>>>],
       [key |-> "Cascade Lake",
        values |-> <<<<"0", "x", "5", "0", "6", "5", "5">>,
                     <<"0", "x", "5", "0", "6", "5", "6">>,
                     <<"0", "x", "5", "0", "6", "5", "7">>>>],
       [key |-> "Coffee Lake",
        values |-> <<<<"0", "x", "8", "0", "6", "e", "a">>,
                     <<"0", "x", "9", "0", "6", "e", "a">>,
                     <<"0", "x", "9", "0", "6", "e", "b">>,
                     <<"0", "x", "9", "0", "6", "e", "c">>,
                     <<"0", "x", "9", "0", "6", "e", "d">>>>],
       [key |-> "Comet Lake",
        values |-> <<<<"0", "x", "8", "0", "6", "e", "c">>,
                     <<"0", "x", "a", "0", "6", "5">>>>],
       [key |-> "Cooper Lake",
        values |-> <<<<"0", "x", "5", "0", "6", "5", "a">>,
                     <<"0", "x", "5", "0", "6", "5", "b">>>>],
       [key |-> "Emerald Rapids",
        values |-> <<<<"0", "x", "c", "0", "6", "f", "2">>>>],
       [key |-> "Haswell",
        values |-> <<<<"0", "x", "3", "0", "6", "c">>,
                     <<"0", "x", "4", "0", "6", "5">>,
                     <<"0", "x", "4", "0", "6", "6">>,
                     <<"0", "x", "3", "0", "6", "f">>>>],
       [key |-> "Hygon Dhyana Plus",
        values |-> <<<<"0", "x", "9", "0", "0", "f", "2", "2">>>>],
       [key |-> "Hygon C86-4G 7490",
        values |-> <<<<"0", "x", "9", "0", "0", "f", "4", "1">>>>],
       [key |-> "Ice Lake",
        values |-> <<<<"0", "x", "6", "0", "6", "e", "6">>,
                     <<"0", "x", "6", "0", "6", "a", "6">>,
                     <<"0", "x", "7", "0", "6", "e", "6">>,
                     <<"0", "x", "6", "0", "6", "c", "1">>>>],
       [key |-> "Ivy Bridge",
        values |-> <<<<"0", "x", "3", "0", "6", "a">>,
                     <<"0", "x", "3", "0", "6", "e">>>>],
       [key |-> "Kaby Lake",
        values |-> <<<<"0", "x", "8", "0", "6", "e", "9">>,
                     <<"0", "x", "9", "0", "6", "e", "9">>>>],
       [key |-> "Knights Landing",
        values |-> <<<<"0", "x", "5", "0", "6", "7">>>>],
       [key |-> "Knights Mill",
        values |-> <<<<"0", "x", "8", "0", "6", "5">>>>],
       [key |-> "Nehalem",
        values |-> <<<<"0", "x", "1", "0", "6", "a">>,
                     <<"0", "x", "1", "0", "6", "e", "5">>,
                     <<"0", "x", "2", "0", "6", "e">>>>],
       [key |-> "Pineview",
        values |-> <<<<"0", "x", "1", "0", "6", "c", "a">>>>],
       [key |-> "Penryn",
        values |-> <<<<"0", "x", "1", "0", "6", "7", "a">>>>],
       [key |-> "Raptor Lake",
        values |-> <<<<"0", "x", "b", "0", "6", "7", "1">>,
                     <<"0", "x", "b", "0", "6", "f", "2">>,
                     <<"0", "x", "b", "0", "6", "f", "5">>,
                     <<"0", "x", "b", "0", "6", "a", "2">>>>],
       [key |-> "Rocket Lake",
        values |-> <<<<"0", "x", "a", "0", "6", "7", "1">>>>],
       [key |-> "Sandy Bridge",
        values |-> <<<<"0", "x", "2", "0", "6", "a">>,
                     <<"0", "x", "2", "0", "6", "d", "6">>,
                     <<"0", "x", "2", "0", "6", "d", "7">>>>],
       [key |-> "Sapphire Rapids",
        values |-> <<<<"0", "x", "8", "0", "6", "f", "3">>,
                     <<"0", "x", "8", "0", "6", "f", "6">>,
                     <<"0", "x", "8", "0", "6", "f", "7">>,
                     <<"0", "x", "8", "0", "6", "f", "8">>>>],
       [key |-> "Skylake",
        values |-> <<<<"0", "x", "4", "0", "6", "e", "3">>,
                     <<"0", "x", "5", "0", "6", "e", "3">>,
                     <<"0", "x", "5", "0", "6", "5", "4">>,
                     <<"0", "x", "5", "0", "6", "5", "2">>>>],
       [key |-> "Tiger Lake",
        values |-> <<<<"0", "x", "8", "0", "6", "c", "1">>>>],
       [key |-> "Alder Lake",
        values |-> <<<<"0", "x", "9", "0", "6", "a", "4">>,
                     <<"0", "x", "9", "0", "6", "a", "3">>,
                     <<"0", "x", "9", "0", "6", "7", "5">>,
                     <<"0", "x", "9", "0", "6", "7", "2">>>>],
       [key |-> "Westmere",
        values |-> <<<<"0", "x", "2", "0", "6", "5">>,
                     <<"0", "x", "2", "0", "6", "c">>,
                     <<"0", "x", "2", "0", "6", "f">>>>],
       [key |-> "Whisky Lake",
        values |-> <<<<"0", "x", "8", "0", "6", "e", "b">>,
                     <<"0", "x", "8", "0", "6", "e", "c">>>>],
       [key |-> "Sierra Forest",
        values |-> <<<<"0", "x", "a", "0", "6", "f", "3">>>>],
       [key |-> "Granite Rapids",
        values |-> <<<<"0", "x", "a", "0", "6", "e", "0">>,
                     <<"0", "x", "a", "0", "6", "d", "0">>,
                     <<"0", "x", "a", "0", "6", "d", "1">>>>],
       [key |-> "Meteor Lake",
        values |-> <<<<"0", "x", "a", "0", "6", "a", "4">>>>],
       [key |-> "Arrow Lake",
        values |-> <<<<"0", "x", "c", "0", "6", "6", "0">>,
                     <<"0", "x", "c", "0", "6", "5", "2">>>>],
       [key |-> "Lunar Lake",
        values |-> <<<<"0", "x", "b", "0", "6", "d", "1">>>>]
    >>

\* str.lower(), for the characters a cpuid is written with.
lower(str) ==
    LET capitals == <<"A", "B", "C", "D", "E", "F", "X">>
        small == <<"a", "b", "c", "d", "e", "f", "x">>
    IN  [i \in 1..Len(str) |->
            IF \E k \in 1..Len(capitals) : capitals[k] = str[i]
            THEN small[CHOOSE k \in 1..Len(capitals) : capitals[k] = str[i]]
            ELSE str[i]]

\* sub in str
Contains(str, sub) ==
    \E i \in 0..(Len(str) - Len(sub)) :
        SubSeq(str, i + 1, i + Len(sub)) = sub

\* cpuid_to_human_friendly(cpuid): the first key of the dict one of whose
\* values is found in the cpuid, ValueError when there is none.
cpuid_to_human_friendly(cpuid) ==
    LET hits == {k \in DOMAIN CPUIDS :
                    \E v \in DOMAIN CPUIDS[k].values :
                        Contains(lower(cpuid), lower(CPUIDS[k].values[v]))}
    IN  IF hits = {}
        THEN [raised |-> "ValueError", returned |-> None]
        ELSE [raised |-> None,
              returned |-> CPUIDS[CHOOSE k \in hits :
                                     \A j \in hits : k <= j].key]

\* The cpuids handed to the function: hex(eax) of a processor of the
\* database (with and without a stepping digit after a short value), some
\* of them in capitals, and cpuids no value is found in.
Cpuids ==
    LET values ==
            UNION {{CPUIDS[k].values[v] : v \in DOMAIN CPUIDS[k].values} :
                       k \in DOMAIN CPUIDS}
    IN  values
        \cup {value \o <<"1">> : value \in {w \in values : Len(w) = 6}}
        \cup {<<"0", "X", "8", "0", "6", "E", "9">>,
              <<"0", "x", "A", "0", "6", "7", "1">>,
              <<"0", "X", "B", "4", "0", "F", "4", "0">>}
        \cup {<<>>, <<"0", "x", "0">>, <<"0", "x", "8", "0", "6", "e">>,
              <<"8", "0", "6", "e", "9">>,
              <<"0", "x", "f", "f", "f", "f", "f">>}

\* nice_name = cpuid_to_human_friendly(my_id)
CpuidToHumanFriendly ==
    /\ ~cpuid_call.done
    /\ \E out \in {cpuid_to_human_friendly(cpuid_call.cpuid)} :
           cpuid_call' = [cpuid_call EXCEPT !.done = TRUE,
                                            !.returned = out.returned,
                                            !.raised = out.raised]
    /\ UNCHANGED <<job_state_map, resource_map, unit_list,
                   before_references, desired_job_list, metadata_flags,
                   observed, raised, recompute_log, launcher,
                   job_state_order, query, provider>>

\* The script about to translate one cpuid: there is no session.
InitCpuid ==
    /\ cpuid_call \in
           {[cpuid |-> cpuid, done |-> FALSE, returned |-> None,
             raised |-> None] : cpuid \in Cpuids}
    /\ launcher = None
    /\ provider = "base"
    /\ query = None
    /\ job_state_order = <<>>
    /\ job_state_map = <<>>
    /\ resource_map = <<>>
    /\ unit_list = <<>>
    /\ before_references = <<>>
    /\ desired_job_list = {}
    /\ metadata_flags = {}
    /\ observed = 0
    /\ raised = None
    /\ recompute_log = <<>>

SpecCpuid == InitCpuid /\ [][CpuidToHumanFriendly]_vars

\* Some value of the database is found in the cpuid.
InDatabase(cpuid) ==
    \E k \in DOMAIN CPUIDS :
        \E v \in DOMAIN CPUIDS[k].values :
            Contains(lower(cpuid), lower(CPUIDS[k].values[v]))

\* C31: cpuid_to_human_friendly(cpuid) raises KeyError when the cpuid is
\* not in the database, and otherwise returns a name of the database.
C31_Original ==
    cpuid_call.done =>
        IF InDatabase(cpuid_call.cpuid)
        THEN /\ cpuid_call.raised = None
             /\ \E k \in DOMAIN CPUIDS : cpuid_call.returned = CPUIDS[k].key
        ELSE cpuid_call.raised = "KeyError"

\* ------------------------------------------------------------------------
\* A scheduler on top of the controller: it starts a job only when the
\* inhibitor list computed at that moment is empty, and hands the job's
\* result to observe_result.
\* ------------------------------------------------------------------------
RunJob(id, result) ==
    /\ observed < MaxRun
    /\ get_inhibitor_list(SessionState, Job(id)) = <<>>
    /\ \E after \in {observe_result(SessionState, Job(id), result, FALSE)} :
           /\ job_state_map' = after.job_state_map
           /\ resource_map' = after.resource_map
           /\ unit_list' = after.unit_list
           /\ raised' = after.raised
           /\ recompute_log' = after.recompute_log
    /\ observed' = observed + 1
    /\ UNCHANGED <<before_references, desired_job_list, metadata_flags,
                   launcher, cpuid_call,
                   job_state_order, query, provider>>

\* What a started job may give: no outcome (it was interrupted), a pass or
\* a failure; a resource job prints one record or nothing.
RunOutcomes == {OUTCOME_NONE, OUTCOME_PASS, OUTCOME_FAIL}

RunLogs(id) ==
    IF JobDef(id).plugin = "resource" THEN {<<>>, <<OutX>>} ELSE {<<>>}

NextSched ==
    \E id \in JobIds :
        \E outcome \in RunOutcomes, io_log \in RunLogs(id) :
            RunJob(id, Result(outcome, io_log))

SpecSched == Init /\ [][NextSched]_vars

\* The scheduler starts job id in this step.
Starts(id) ==
    \E result \in {job_state_map'[id].result} : RunJob(id, result)

\* The selected jobs a checkpoint is declared to run after: those carrying
\* its flag and those with a sibling depending on it.
DeclaredLinked(checkpoint) ==
    {x \in desired_job_list :
        CarriesFlagOf(checkpoint, x) \/ SiblingDependsOn(checkpoint, x)}

\* C32: when the scheduler only runs jobs whose freshly computed inhibitor
\* list is empty, then at the moment a job is started every hard
\* dependency of it has outcome PASS, every after-dependency has an
\* outcome other than NONE, every salvage dependency has outcome FAIL and,
\* for a checkpoint job, no desired job linked to it has outcome NONE.
C32_StartedJobHasDependenciesMet ==
    [][\A id \in JobIds :
          Starts(id) =>
              /\ \A d \in get_direct_dependencies(Job(id)) :
                     CurrentOutcome(d) = OUTCOME_PASS
              /\ \A d \in get_after_dependencies(Job(id)) :
                     CurrentOutcome(d) # OUTCOME_NONE
              /\ \A d \in get_salvage_dependencies(Job(id)) :
                     CurrentOutcome(d) = OUTCOME_FAIL
              /\ id \in SuspendJobIds =>
                     \A x \in DeclaredLinked(id) :
                         CurrentOutcome(x) # OUTCOME_NONE]_vars

\* J (hard dependency A, after-dependency B, salvage dependency R) and the
\* manual checkpoint (linked to B and J) have both been started.
C32_Witness ==
    /\ desired_job_list = JobIds
    /\ CurrentOutcome("J") = OUTCOME_PASS
    /\ CurrentOutcome(MANUAL_JOB_ID) = OUTCOME_PASS

\* ------------------------------------------------------------------------
\* The scheduler on a session with hard and after dependencies only: it
\* keeps starting some job that has not run and has no inhibitor, and
\* every job passes.
\* ------------------------------------------------------------------------
InitProgress ==
    \E desired \in SUBSET ProgressJobIds :
        /\ desired_job_list = desired
        /\ metadata_flags = {}
        /\ resource_map = <<>>
        /\ unit_list = <<>>
        /\ before_references = [id \in ProgressJobIds |-> {}]
        /\ observed = 0
        /\ raised = None
        /\ recompute_log = <<>>
        /\ launcher = None
        /\ cpuid_call = None
        /\ provider = "base"
        /\ query = None
        /\ job_state_order =
               <<"D", "B", "L", "M", AUTO_JOB_ID, MANUAL_JOB_ID>>
        /\ job_state_map =
            _recompute_job_readiness(
                [job_state_map |->
                    [id \in ProgressJobIds |->
                        [result |-> Result(OUTCOME_NONE, <<>>),
                         readiness_inhibitor_list |->
                            <<UndesiredJobReadinessInhibitor>>]],
                 resource_map |-> <<>>, unit_list |-> <<>>,
                 desired_job_list |-> desired, metadata_flags |-> {},
                 raised |-> None, recompute_log |-> <<>>,
                 job_state_order |->
                     <<"D", "B", "L", "M", AUTO_JOB_ID,
                       MANUAL_JOB_ID>>]).job_state_map

\* The job can be started: it has not run and nothing inhibits it.
Ready(id) ==
    /\ CurrentOutcome(id) = OUTCOME_NONE
    /\ get_inhibitor_list(SessionState, Job(id)) = <<>>

RunPending(id) ==
    /\ Ready(id)
    /\ \E after \in {observe_result(SessionState, Job(id),
                                    Result(OUTCOME_PASS, <<>>), FALSE)} :
           /\ job_state_map' = after.job_state_map
           /\ resource_map' = after.resource_map
           /\ unit_list' = after.unit_list
           /\ raised' = after.raised
           /\ recompute_log' = after.recompute_log
    /\ observed' = observed + 1
    /\ UNCHANGED <<before_references, desired_job_list, metadata_flags,
                   launcher, cpuid_call, job_state_order, query,
                   provider>>

NextProgress == \E id \in ProgressJobIds : RunPending(id)

\* The scheduler does not stop while some job can be started.
SpecProgress ==
    InitProgress /\ [][NextProgress]_vars /\ WF_vars(NextProgress)

NotRun == {id \in DOMAIN job_state_map : CurrentOutcome(id) = OUTCOME_NONE}

\* C33: for a job set with hard and after dependencies only and an acyclic
\* dependency graph (checkpoint edges included), when every executed job
\* passes and the scheduler keeps running some job that has outcome NONE
\* and an empty inhibitor list, eventually every job has an outcome other
\* than NONE, and in no reachable state do jobs with outcome NONE remain
\* while none of them is ready.
C33_Progress ==
    /\ [](NotRun # {} => \E id \in NotRun : Ready(id))
    /\ <>(NotRun = {})

\* Every job of the session was selected and has passed, the job that
\* waits for the automatic suspend included.
C33_Witness ==
    /\ DOMAIN job_state_map = ProgressJobIds
    /\ desired_job_list = ProgressJobIds
    /\ \A id \in ProgressJobIds : CurrentOutcome(id) = OUTCOME_PASS

\* C34 as stated: after observe_result returns, for every job of the
\* session the stored readiness inhibitor list equals get_inhibitor_list
\* evaluated on the state at return, whatever the kind of the observed
\* job: a job that is not a resource job, a resource job with outcome
\* NONE, a resource job whose output gave no record, a resource job with
\* records.
C34_Original ==
    [][\A id \in JobIds :
          \A result \in {job_state_map'[id].result} :
              Observes(id, result) =>
                  \A j \in JobIds :
                      job_state_map'[j].readiness_inhibitor_list
                          = Inhibitors(j)'
      ]_vars

\* ------------------------------------------------------------------------
\* get_inhibitor_list and get_dependency_set called on their own, between
\* observations and linking passes
\* ------------------------------------------------------------------------
Query(call, id, returned) == [call |-> call, id |-> id, returned |-> returned]

\* get_inhibitor_list storing the list it returns in the job state.
CallGetInhibitorList_StoresList(id) ==
    /\ query' = Query("get_inhibitor_list", id,
                      get_inhibitor_list(SessionState, Job(id)))
    /\ job_state_map' =
           [job_state_map EXCEPT
               ![id].readiness_inhibitor_list =
                   get_inhibitor_list(SessionState, Job(id))]
    /\ UNCHANGED <<resource_map, unit_list,
                   before_references, desired_job_list, metadata_flags,
                   observed, raised, recompute_log, launcher, cpuid_call,
                   job_state_order, provider>>

\* get_inhibitor_list(session_state, job): it assigns to its local list
\* only.
CallGetInhibitorList(id) ==
    /\ query' = Query("get_inhibitor_list", id,
                      get_inhibitor_list(SessionState, Job(id)))
    /\ UNCHANGED <<job_state_map, resource_map, unit_list,
                   before_references, desired_job_list, metadata_flags,
                   observed, raised, recompute_log, launcher, cpuid_call,
                   job_state_order, provider>>

\* get_dependency_set(job, job_list): it builds and returns a new set.
CallGetDependencySet(id) ==
    /\ query' = Query("get_dependency_set", id,
                      get_dependency_set(Job(id), job_list))
    /\ UNCHANGED <<job_state_map, resource_map, unit_list,
                   before_references, desired_job_list, metadata_flags,
                   observed, raised, recompute_log, launcher, cpuid_call,
                   job_state_order, provider>>

\* A mutation between two calls: a result is observed.
ObserveBetweenCalls(id, result) ==
    /\ observed < MaxMutate
    /\ \E after \in {observe_result(SessionState, Job(id), result, FALSE)} :
           /\ job_state_map' = after.job_state_map
           /\ resource_map' = after.resource_map
           /\ unit_list' = after.unit_list
           /\ raised' = after.raised
           /\ recompute_log' = after.recompute_log
    /\ observed' = observed + 1
    /\ query' = Query(None, None, <<>>)
    /\ UNCHANGED <<before_references, desired_job_list, metadata_flags,
                   launcher, cpuid_call, job_state_order, provider>>

\* A mutation between two calls: the before field of a job is linked.
LinkBetweenCalls(id) ==
    /\ before_references' =
           add_before_deps(before_references, Job(id), JobIds, GlobalJobIds)
    /\ query' = Query(None, None, <<>>)
    /\ UNCHANGED <<job_state_map, resource_map, unit_list, desired_job_list,
                   metadata_flags, observed, raised, recompute_log,
                   launcher, cpuid_call, job_state_order, provider>>

NextQuery ==
    \/ \E id \in JobIds : CallGetInhibitorList(id)
    \/ \E id \in JobIds : CallGetDependencySet(id)
    \/ \E id \in JobIds :
           \E outcome \in RunOutcomes, io_log \in RunLogs(id) :
               ObserveBetweenCalls(id, Result(outcome, io_log))
    \/ \E id \in LinkingJobIds : LinkBetweenCalls(id)

SpecQuery == Init /\ [][NextQuery]_vars

Reversed(order) == [i \in 1..Len(order) |-> order[Len(order) + 1 - i]]

\* C36 as stated: the sequence get_inhibitor_list returns depends on the
\* logical content of the session only: a session state with the same
\* jobs, outcomes, resources and stored inhibitors whose jobs were
\* inserted into the job map in another order gives the same sequence,
\* for ordinary jobs and for checkpoint jobs with several linked jobs at
\* outcome NONE.
C36_Original ==
    \A id \in JobIds :
        get_inhibitor_list(
            [SessionState EXCEPT
                !.job_state_order = Reversed(job_state_order)], Job(id))
        = get_inhibitor_list(SessionState, Job(id))

\* C37: the unit collection only grows: no observe_result call removes or
\* replaces a unit already present (the collection before the call is a
\* prefix of the collection after it), so the units generated from the
\* earlier records of a resource job are still there once a later result
\* of the job has replaced those records, even when the new records no
\* longer produce them.
C37_UnitsOnlyGrow ==
    [][\A id \in JobIds :
          \A result \in {job_state_map'[id].result} :
              Observes(id, result) =>
                  /\ Len(unit_list') >= Len(unit_list)
                  /\ SubSeq(unit_list', 1, Len(unit_list)) = unit_list
      ]_vars

\* Lenient session: the job generated from the record with value x is in
\* the collection while the resource job holds the single record with
\* value y, from which the template yields no unit.
C37_Witness ==
    /\ ~StrictExpansion
    /\ observed = 2
    /\ "R" \in DOMAIN resource_map
    /\ resource_map["R"] = <<Resource({<<"attr", "y">>})>>
    /\ \E i \in 1..Len(unit_list) :
           /\ unit_list[i].via = "R"
           /\ unit_list[i].template = "t1"
           /\ unit_list[i].value = "x"
    /\ \A i \in 1..Len(unit_list) : unit_list[i].value # "y"

\* ------------------------------------------------------------------------
\* The scheduler on a session whose suspend jobs name themselves
\* ------------------------------------------------------------------------
InitSelfLinked ==
    \E desired \in DesiredChoices :
        InitProvided("self-linked", desired, {}, InitialUnits)

SpecSelfLinked == InitSelfLinked /\ [][NextSched]_vars

\* C38 as stated: a suspend job is never made to wait for itself: the
\* AFTER edges get_dependency_set adds for it never name its own id, and
\* _get_suspend_inhibitor_list never returns a PENDING_DEP inhibitor
\* related to the suspend job itself, also when the suspend job carries
\* its own matching flag or declares a sibling depending on itself.
C38_Original ==
    \A c \in SuspendJobIds :
        /\ <<AFTER, c>> \notin get_dependency_set(Job(c), job_list)
        /\ \A inh \in Range(_get_suspend_inhibitor_list(SessionState,
                                                        Job(c))) :
               ~(inh.cause = PENDING_DEP /\ inh.related_job = c)

\* ------------------------------------------------------------------------
\* Observations in a session with two resource jobs (R, R2), a plain job D
\* and a job K, with templates bound to either resource
\* ------------------------------------------------------------------------
TwoResourceUnits ==
    <<JobUnit("R"), JobUnit("R2"), JobUnit("D"), JobUnit("K")>>
    \o <<TemplateUnit("t1", "R"), TemplateUnit("t2", "R"),
         TemplateUnit("t3", "R2")>>

InitTwoResources ==
    /\ provider = "base"
    /\ desired_job_list = InhibitorJobIds
    /\ metadata_flags = {}
    /\ resource_map = <<>>
    /\ unit_list = TwoResourceUnits
    /\ before_references = [id \in InhibitorJobIds |-> {}]
    /\ observed = 0
    /\ raised = None
    /\ recompute_log = <<>>
    /\ launcher = None
    /\ cpuid_call = None
    /\ query = None
    /\ job_state_order = <<"R", "R2", "D", "K">>
    /\ job_state_map =
        _recompute_job_readiness(
            [job_state_map |->
                [id \in InhibitorJobIds |->
                    [result |-> Result(OUTCOME_NONE, <<>>),
                     readiness_inhibitor_list |->
                        <<UndesiredJobReadinessInhibitor>>]],
             resource_map |-> <<>>, unit_list |-> TwoResourceUnits,
             desired_job_list |-> InhibitorJobIds, metadata_flags |-> {},
             raised |-> None, recompute_log |-> <<>>,
             job_state_order |-> <<"R", "R2", "D", "K">>]).job_state_map

NextTwoResources ==
    \E id \in InhibitorJobIds :
        \E outcome \in RunOutcomes, io_log \in LogsOf(id) :
            ObserveResult(id, Result(outcome, io_log), FALSE)

SpecTwoResources == InitTwoResources /\ [][NextTwoResources]_vars

\* The template the unit was generated from is bound to resource id.
GeneratedFrom(unit, id) ==
    \E i \in 1..Len(unit_list) :
        /\ unit_list[i].kind = "template"
        /\ unit_list[i].id = unit.template
        /\ unit_list[i].resource_id = id

\* C39: observe_result for a job whose plugin is not "resource" leaves the
\* resource map and the unit collection unchanged whatever the outcome and
\* output of the result; observe_result for a resource job changes no
\* entry of the resource map other than the job's own and adds units of
\* the templates bound to that job only.
C39_ObserveFrame ==
    [][\A id \in InhibitorJobIds :
          \A result \in {job_state_map'[id].result} :
              Observes(id, result) =>
                  IF Job(id).plugin # "resource"
                  THEN /\ resource_map' = resource_map
                       /\ unit_list' = unit_list
                  ELSE /\ DOMAIN resource_map' \ {id}
                              = DOMAIN resource_map \ {id}
                       /\ \A r \in DOMAIN resource_map \ {id} :
                              resource_map'[r] = resource_map[r]
                       /\ \A i \in (Len(unit_list) + 1)..Len(unit_list') :
                              GeneratedFrom(unit_list'[i], id)
      ]_vars

\* R2 was observed after R: the records of R are those R printed, R2 has
\* its own, and the only unit generated by the second call comes from the
\* template bound to R2.
C39_Witness ==
    /\ observed = 2
    /\ DOMAIN resource_map = {"R", "R2"}
    /\ resource_map["R"] = <<Resource({<<"attr", "x">>})>>
    /\ resource_map["R2"] = <<Resource({<<"attr", "y">>})>>
    /\ unit_list[Len(unit_list)].via = "R2"
    /\ unit_list[Len(unit_list)].template = "t3"
    /\ unit_list[Len(unit_list) - 1].via = "R"

====
